---------------------------- MODULE Spec2Model ----------------------------
(***************************************************************************)
(* Model of the rclone Telegram backend: the topic-tree filesystem layer   *)
(* (Filesystem), the message-search iterator (Objects / ObjectSearch),     *)
(* and the request gateway (TelegramClient, wrapped by pacer and cache).   *)
(*                                                                         *)
(* Strings are sequences of one-character strings, so that the path        *)
(* functions are computed the way Go's path and strings packages compute   *)
(* them.                                                                   *)
(***************************************************************************)
EXTENDS Integers, Sequences, FiniteSets, TLC

VARIABLES
    \* ---- message-search iterator (Filesystem.Objects / ObjectSearch) ----
    itFn,        \* which function is running: "none", "Objects", "ObjectSearch"
    itPc,        \* "idle", "loop" (about to search), "done" (returned)
    itOffset,    \* local `offset`
    itItems,     \* local `items`
    itObjects,   \* local `objects` (Objects) / the object returned (ObjectSearch)
    itErr,       \* the error returned
    itAsked,     \* the searches made: [n, first, seen, repeated]
    itLast,      \* the last decoded page: [asked, incomplete, next]
    itUserSeen,  \* number of MessageObj entries in the pages fetched so far
    itScript,    \* replies the remote will give next (<<>>: any reply)
    itHasMessages, \* FALSE: the topic searched holds no message at all
    itScenario,  \* TRUE when the invocation runs against the 5/5/2 result set
    \* ---- configuration (types.Options) ----
    maxRetries,      \* Options.MaxRetries
    maxConnections,  \* Options.MaxConnections
    maxCacheTime,    \* Options.MaxCacheTime (seconds)
    \* ---- request gateway (TelegramClient: pacer, caches, transport) ----
    gwStack,     \* the wrapped calls in progress, the innermost last
    gwTokens,    \* free connection tokens of the pacer
    gwRet,       \* what the last completed call returned
    tcpActive,   \* mtproto.TcpActive()
    chanCache,   \* tc.channels: "none" or the cached channel
    topicsCache, \* tc.topics, entry of the one key used: "none" or the value
    \* ---- the remote channel and the filesystem operations on it ----
    rTopics,         \* the forum topics of the channel, records [id, title]
    rNext,           \* the id the remote gives to the next topic
    rUser,           \* ids of the topics that hold a user (file) message
    lockDirectories, \* tc.lockDirectories: 0 when free, else the holder
    fsTopics,        \* tc.topics: key -> cached topic list, or NotCached
    fsCall,          \* per caller: the operation in progress and its locals
    fsRes,           \* per caller: what the last completed operation returned
    fsPrev,          \* per caller: what the operation before that returned
    \* ---- path canonicalization (filesystem.Clean) ----
    clPc,        \* "idle", "input", "once" or "twice"
    clInput,     \* the path given
    clOnce,      \* Clean(input)
    clTwice,     \* Clean(Clean(input))
    \* ---- the multipart checksum (types.TelegramMultipartHash) ----
    hsPc,          \* "idle", "input" or "done"
    hsInput,       \* a list of file hashes
    hsOther,       \* a second list of file hashes
    hsDigest,      \* FromFileHash(hsInput)
    hsOtherDigest, \* FromFileHash(hsOther)
    tData,         \* t.data: the bytes written to the hasher
    tSha256,       \* t.sha256: the chunk hashes the hasher keeps
    tSums,         \* how many times Sum ran
    tRet,          \* what the last Sum was given and returned
    \* ---- Filesystem.DirectoriesFrom on a given listing ----
    dfPc,          \* "idle", "call" or "done"
    dfListing,     \* the topics GetTopics returns
    dfTopic,       \* the topic whose children are asked for
    dfChildren,    \* the topics DirectoriesFrom returned
    dfErr,         \* the error DirectoriesFrom returned
    \* ---- the two client handles of TelegramClient ----
    cnTestServer,  \* Options.TestServer
    cnMtproto,     \* tc.mtproto: the session it points to, 0 for nil
    cnBot,         \* tc.bot: the session it points to, 0 for nil
    cnNext,        \* the number of the next session created
    cnActive,      \* the sessions whose transport is active
    cnRet,         \* what the last call returned
    \* ---- callers of the gateway running at the same time ----
    lkCall,        \* per caller: the operation, where it is, tokens held
    lkDirectories, \* tc.lockDirectories: 0 when free, else the holder
    lkFiles,       \* tc.lockFiles: 0 when free, else the holder
    lkTokens,      \* free connection tokens of the pacer
    lkChannel,     \* whether tc.channels holds the channel
    lkTopics,      \* whether tc.topics holds the listing asked for
    \* ---- naming: Locate and NewObjectFromRelative ----
    nmPc,          \* "idle", "input" or "done"
    nmRoot,        \* f.root, the configured root
    nmRel,         \* the relative path given
    nmQuery,       \* the query Locate returned
    nmObject       \* the object NewObjectFromRelative built

itVars == <<itFn, itPc, itOffset, itItems, itObjects, itErr, itAsked, itLast,
            itUserSeen, itScript, itHasMessages, itScenario>>

cfgVars == <<maxRetries, maxConnections, maxCacheTime>>

gwVars == <<gwStack, gwTokens, gwRet, tcpActive, chanCache, topicsCache>>

fsVars == <<rTopics, rNext, rUser, lockDirectories, fsTopics, fsCall, fsRes, fsPrev>>

clVars == <<clPc, clInput, clOnce, clTwice>>

hsVars == <<hsPc, hsInput, hsOther, hsDigest, hsOtherDigest>>

tVars == <<tData, tSha256, tSums, tRet>>

pureVars == <<clVars, hsVars, tVars>>

dfVars == <<dfPc, dfListing, dfTopic, dfChildren, dfErr>>

cnVars == <<cnTestServer, cnMtproto, cnBot, cnNext, cnActive, cnRet>>

lkVars == <<lkCall, lkDirectories, lkFiles, lkTokens, lkChannel, lkTopics>>

nmVars == <<nmPc, nmRoot, nmRel, nmQuery, nmObject>>

auxVars == <<dfVars, cnVars, lkVars, nmVars>>

vars == <<itVars, cfgVars, gwVars, fsVars, pureVars, auxVars>>

-----------------------------------------------------------------------------
(* Bounds *)

MaxPage == 1        \* messages per page chosen freely by the remote
MaxOffset == 2      \* continuation offsets the remote may return: 0..MaxOffset
MaxCount == 1       \* Count field of channel-messages / not-modified replies
MaxSearches == 3    \* searches after which the remote only returns empty pages
MaxRetryBudget == 3 \* Options.MaxRetries is drawn from 0..MaxRetryBudget
MaxConn == 2        \* Options.MaxConnections is drawn from 1..MaxConn
MaxTopicId == 3     \* the remote creates topics while the next id is <= MaxTopicId
MaxFuel == 1          \* pages a search loop of a filesystem operation may continue
MaxPathLen == 4       \* longest path given to Clean
MaxHashes == 3        \* longest list of file hashes given to FromFileHash
MaxHashOffset == 1    \* the offsets of the given file hashes are 0..MaxHashOffset
ChunkSize == 2        \* bytes per chunk of the hasher (131072 in the code)
MaxData == 3          \* bytes written to the hasher
MaxSums == 2          \* calls of Sum on one hasher
MaxListed == 4        \* topics in a listing given to DirectoriesFrom
MaxSessions == 3      \* client sessions created by Connect and Authorize
MaxRootLen == 2       \* longest configured root given to Locate
MaxRelLen == 3        \* longest relative path given to Locate

-----------------------------------------------------------------------------
(* Strings *)

RootLit == <<"/", "r", "o", "o", "t">>                 \* "/root"
PathA == RootLit \o <<"/", "a">>                       \* "/root/a"
PathAB == PathA \o <<"/", "b">>                        \* "/root/a/b"
PathAF == PathA \o <<"/", "f">>                        \* "/root/a/f"
PathABF == PathAB \o <<"/", "f">>                      \* "/root/a/b/f"

HasPrefix(s, p) == Len(p) <= Len(s) /\ SubSeq(s, 1, Len(p)) = p

HasSuffix(s, p) == Len(p) <= Len(s) /\ SubSeq(s, Len(s) - Len(p) + 1, Len(s)) = p

TrimPrefix(s, p) == IF HasPrefix(s, p) THEN SubSeq(s, Len(p) + 1, Len(s)) ELSE s

TrimSuffix(s, p) == IF HasSuffix(s, p) THEN SubSeq(s, 1, Len(s) - Len(p)) ELSE s

\* strings.Split(s, "/")
RECURSIVE Components(_)
Components(s) ==
    IF s = <<>> THEN << <<>> >>
    ELSE LET rest == Components(Tail(s))
         IN  IF Head(s) = "/" THEN << <<>> >> \o rest
             ELSE << <<Head(s)>> \o Head(rest) >> \o Tail(rest)

\* the component walk of path.Clean: "" and "." are dropped, ".." removes the
\* last kept component (or is kept in front of a relative path)
RECURSIVE CleanComps(_, _, _)
CleanComps(comps, out, rooted) ==
    IF comps = <<>> THEN out
    ELSE LET c == Head(comps)
             rest == Tail(comps)
         IN  IF c = <<>> \/ c = <<".">> THEN CleanComps(rest, out, rooted)
             ELSE IF c = <<".", ".">>
                  THEN IF out # <<>> /\ out[Len(out)] # <<".", ".">>
                       THEN CleanComps(rest, SubSeq(out, 1, Len(out) - 1), rooted)
                       ELSE IF rooted THEN CleanComps(rest, out, rooted)
                            ELSE CleanComps(rest, Append(out, c), rooted)
                  ELSE CleanComps(rest, Append(out, c), rooted)

RECURSIVE JoinSlash(_)
JoinSlash(comps) ==
    IF comps = <<>> THEN <<>>
    ELSE IF Len(comps) = 1 THEN comps[1]
         ELSE comps[1] \o <<"/">> \o JoinSlash(Tail(comps))

\* path.Clean
PathClean(p) ==
    IF p = <<>> THEN <<".">>
    ELSE LET rooted == p[1] = "/"
             body == JoinSlash(CleanComps(Components(p), <<>>, rooted))
         IN  IF rooted THEN <<"/">> \o body
             ELSE IF body = <<>> THEN <<".">> ELSE body

\* path.Join(a, b): empty elements are ignored, the rest joined and cleaned
PathJoin(a, b) ==
    IF a = <<>> /\ b = <<>> THEN <<>>
    ELSE IF a = <<>> THEN PathClean(b)
         ELSE IF b = <<>> THEN PathClean(a)
              ELSE PathClean(a \o <<"/">> \o b)

\* index of the last "/" of s, 0 when there is none
RECURSIVE LastSlash(_)
LastSlash(s) ==
    IF s = <<>> THEN 0
    ELSE IF s[Len(s)] = "/" THEN Len(s)
         ELSE LastSlash(SubSeq(s, 1, Len(s) - 1))

\* path.Dir
PathDir(p) == PathClean(SubSeq(p, 1, LastSlash(p)))

LeadSlash(input) == <<"/">> \o input

TrailSlash(input) == input \o <<"/">>

UntrailSlash(input) == TrimSuffix(input, <<"/">>)

\* filesystem.Clean with the closing path.Clean replaced by the removal of one
\* trailing slash
Clean_TrimOnly(input) ==
    LET lead == IF input = <<>> THEN <<"/">>
                ELSE IF ~HasPrefix(input, <<"/">>) THEN LeadSlash(input) ELSE input
        output == IF input = <<>> THEN lead
                  ELSE IF ~HasSuffix(lead, <<"/">>) THEN TrailSlash(lead) ELSE lead
    IN  IF output = <<"/">> THEN output ELSE UntrailSlash(output)

\* filesystem.Clean
Clean(input) ==
    LET lead == IF input = <<>> THEN <<"/">>
                ELSE IF ~HasPrefix(input, <<"/">>) THEN LeadSlash(input) ELSE input
        output == IF input = <<>> THEN lead
                  ELSE IF ~HasSuffix(lead, <<"/">>) THEN TrailSlash(lead) ELSE lead
    IN  PathClean(output)

\* Filesystem.Root
Root(fsroot) == UntrailSlash(PathClean(PathJoin(RootLit, Clean(fsroot))))

\* Filesystem.Locate: the query of a relative path
Locate(fsroot, relative) == UntrailSlash(PathJoin(Root(fsroot), relative))

-----------------------------------------------------------------------------
(* Messages and remote search replies *)

MessageObj(body) == [type |-> "MessageObj", body |-> body]
MessageService == [type |-> "MessageService", body |-> <<>>]
MessageEmpty == [type |-> "MessageEmpty", body |-> <<>>]

\* what one remote search (after the pacer's retries) hands back:
\*   err    "nil", or the failure of the wrapped call
\*   shape  the concrete type of the reply
Reply(err, shape, messages, count, off) ==
    [err |-> err, shape |-> shape, messages |-> messages, count |-> count,
     offsetIdOffset |-> off]

\* TelegramClient.SearchMessagesTopic, decoding of the reply
SearchMessagesTopic(r, offset) ==
    LET failed == [messages |-> <<>>, amount |-> 0, incomplete |-> FALSE,
                   next |-> offset, err |-> r.err]
    IN
    IF r.err \in {"ErrReconnect", "ErrInvalidChannel", "ErrFloodWait"}
    THEN failed
    ELSE IF r.err # "nil"
    THEN \* any other RPC error leaves `messages` nil: the default branch
         [failed EXCEPT !.err = "ErrOperationWithoutUpdates"]
    ELSE CASE r.shape = "MessagesMessagesObj" ->
                [messages |-> r.messages, amount |-> Len(r.messages),
                 incomplete |-> FALSE, next |-> offset, err |-> "nil"]
           [] r.shape = "MessagesMessagesSlice" ->
                [messages |-> r.messages, amount |-> Len(r.messages),
                 incomplete |-> TRUE, next |-> r.offsetIdOffset, err |-> "nil"]
           [] r.shape = "MessagesChannelMessages" ->
                [messages |-> r.messages, amount |-> r.count,
                 incomplete |-> (0 < r.count), next |-> r.offsetIdOffset,
                 err |-> "nil"]
           [] r.shape = "MessagesMessagesNotModified" ->
                [messages |-> <<>>, amount |-> r.count,
                 incomplete |-> TRUE, next |-> offset, err |-> "nil"]
           [] OTHER ->
                [failed EXCEPT !.err = "ErrOperationWithoutUpdates"]

\* the loop condition of Objects and ObjectSearch
KeepLooping_Always(incomplete, offset, next) == incomplete

KeepLooping(incomplete, offset, next) == incomplete /\ offset # next

\* Objects: the objects appended for one page
RECURSIVE PageObjects(_, _)
PageObjects(messages, title) ==
    IF messages = <<>> THEN <<>>
    ELSE LET m == Head(messages)
         IN  (IF m.type = "MessageObj" /\ PathDir(m.body) = title
              THEN <<m>> ELSE <<>>) \o PageObjects(Tail(messages), title)

\* number of entries of a page that are MessageObj
RECURSIVE CountObj(_)
CountObj(messages) ==
    IF messages = <<>> THEN 0
    ELSE (IF Head(messages).type = "MessageObj" THEN 1 ELSE 0)
         + CountObj(Tail(messages))

PageItems_NoSkip(amount, messages) == amount

\* Objects: what one page adds to `items` (amount, minus one per entry that
\* is not a MessageObj)
PageItems(amount, messages) == amount - (Len(messages) - CountObj(messages))

RECURSIVE PageMatch_FirstObj(_, _)
PageMatch_FirstObj(messages, query) ==
    IF messages = <<>> THEN <<>>
    ELSE LET m == Head(messages)
         IN  IF m.type = "MessageObj" THEN <<m>>
             ELSE PageMatch_FirstObj(Tail(messages), query)

\* ObjectSearch: the first MessageObj of the page whose body is the query
RECURSIVE PageMatch(_, _)
PageMatch(messages, query) ==
    IF messages = <<>> THEN <<>>
    ELSE LET m == Head(messages)
         IN  IF m.type = "MessageObj" /\ m.body = query THEN <<m>>
             ELSE PageMatch(Tail(messages), query)


-----------------------------------------------------------------------------
(* Configuration and the idle gateway *)

\* the options as one fixed configuration, for the specifications that do not
\* exercise the gateway
CfgDefault == maxRetries = 0 /\ maxConnections = 1 /\ maxCacheTime = 0

\* the default of the option max_cache_time
MaxCacheTimeDefault == 30

NoReturn == [op |-> "none", err |-> "nil", payload |-> "none", sent |-> "none",
             floods |-> 0, last |-> "none"]

GwIdle ==
    /\ gwStack = <<>> /\ gwTokens = maxConnections /\ gwRet = NoReturn
    /\ tcpActive = TRUE /\ chanCache = "none" /\ topicsCache = "none"

NoDigest == [sha512 |-> <<>>]

NoSum == [given |-> <<>>, fresh |-> <<>>, digest |-> NoDigest]

\* no path being canonicalized
ClIdle == clPc = "idle" /\ clInput = <<>> /\ clOnce = <<>> /\ clTwice = <<>>

\* no pair of lists being digested
HsIdle ==
    /\ hsPc = "idle" /\ hsInput = <<>> /\ hsOther = <<>>
    /\ hsDigest = NoDigest /\ hsOtherDigest = NoDigest

\* the hasher as NewTelegramMultipartHasher returns it
TIdle == tData = <<>> /\ tSha256 = <<>> /\ tSums = 0 /\ tRet = NoSum

-----------------------------------------------------------------------------
(* The remote channel, the topic-listing cache and the idle filesystem *)

ChannelRootTopicId == 1

Callers == {1, 2}

PathSlash == <<"/">>

\* the titles the operations of the model work on, and the cache keys
Titles == {RootLit, PathA, PathAB}

Keys == Titles \cup {PathSlash, PathAF}

NotCached == [hit |-> FALSE, topics |-> {}]

Cached(topics) == [hit |-> TRUE, topics |-> topics]

Topic(id, title) == [id |-> id, title |-> title]

NoTopic == Topic(0, <<>>)

NoRes ==
    [op |-> "none", query |-> <<>>, err |-> "nil", created |-> FALSE, id |-> 0,
     absent |-> FALSE, found |-> FALSE, nonEmpty |-> FALSE,
     remoteErr |-> FALSE, issued |-> FALSE, orphan |-> FALSE,
     entries |-> 0, dirs |-> {}, files |-> 0, failed |-> {}, listed |-> {},
     relative |-> <<>>, searched |-> FALSE, body |-> <<>>,
     remote |-> [topics |-> {}, user |-> {}]]

NoCall == [op |-> "none", pc |-> "idle", query |-> <<>>, relative |-> <<>>,
           topic |-> NoTopic, res |-> NoRes]

\* no call of DirectoriesFrom was made
DfIdle ==
    /\ dfPc = "idle" /\ dfListing = {} /\ dfTopic = NoTopic
    /\ dfChildren = {} /\ dfErr = "nil"

NoConn == [op |-> "none", err |-> "nil", handle |-> 0, reconnected |-> FALSE]

\* the client before Connect: no handle
CnFresh ==
    /\ cnMtproto = 0 /\ cnBot = 0 /\ cnNext = 1 /\ cnActive = {} /\ cnRet = NoConn

CnIdle == cnTestServer = FALSE /\ CnFresh

NoLkCall == [op |-> "none", pc |-> "idle", call |-> "none", held |-> 0, err |-> "nil"]

\* nobody calls the gateway; the pacer has its one default token
LkIdle ==
    /\ lkCall = [c \in Callers |-> NoLkCall]
    /\ lkDirectories = 0 /\ lkFiles = 0 /\ lkTokens = 1
    /\ lkChannel = FALSE /\ lkTopics = FALSE

NoObject == [absolute |-> <<>>, relative |-> <<>>]

NmIdle ==
    /\ nmPc = "idle" /\ nmRoot = <<>> /\ nmRel = <<>> /\ nmQuery = <<>>
    /\ nmObject = NoObject

AuxIdle == DfIdle /\ CnIdle /\ LkIdle /\ NmIdle

\* the channel right after the filesystem connected: the root topic only,
\* nothing cached, nobody inside an operation
FsIdle ==
    /\ rTopics = {Topic(ChannelRootTopicId, RootLit)}
    /\ rNext = ChannelRootTopicId + 1
    /\ rUser = {}
    /\ lockDirectories = 0
    /\ fsTopics = [k \in Keys |-> NotCached]
    /\ fsCall = [c \in Callers |-> NoCall]
    /\ fsRes = [c \in Callers |-> NoRes]
    /\ fsPrev = [c \in Callers |-> NoRes]

-----------------------------------------------------------------------------
(* The message-search iterator: Filesystem.Objects and Filesystem.ObjectSearch *)

ItTopicTitle == PathA      \* title of the topic searched
ItQuery == PathAF          \* query of ObjectSearch

\* the messages the remote may put in a page
MessagePool == {MessageObj(PathAF), MessageObj(PathABF), MessageService, MessageEmpty}

Pages(nonEmpty) ==
    IF nonEmpty THEN UNION {[1..n -> MessagePool] : n \in 0..MaxPage} ELSE {<<>>}

RemoteErrors == {"ErrReconnect", "ErrInvalidChannel", "ErrFloodWait", "ErrRPC"}

\* every reply a search may get; Count is at least the size of the page.  Once
\* MaxSearches searches were made the remote has nothing left but empty pages.
RemoteReplies(nonEmpty) ==
    LET counts == IF nonEmpty THEN 0..MaxCount ELSE {0}
    IN  {Reply(e, "nil", <<>>, 0, 0) : e \in RemoteErrors}
        \cup {Reply("nil", "Unknown", <<>>, 0, 0)}
        \cup {Reply("nil", "MessagesMessagesObj", p, 0, 0) : p \in Pages(nonEmpty)}
        \cup {Reply("nil", "MessagesMessagesSlice", p, 0, o) :
                 p \in Pages(nonEmpty), o \in 0..MaxOffset}
        \cup {Reply("nil", "MessagesChannelMessages", pc[1], pc[2], o) :
                 pc \in {x \in Pages(nonEmpty) \X counts : Len(x[1]) <= x[2]},
                 o \in 0..MaxOffset}
        \cup {Reply("nil", "MessagesMessagesNotModified", <<>>, c, 0) : c \in counts}

Users(n) == [i \in 1..n |-> MessageObj(PathAF)]
Services(n) == [i \in 1..n |-> MessageService]

\* the three-page result set: 5, 5 and 2 user messages (each page may carry a
\* service entry as well), the first two incomplete with advancing offsets,
\* the third complete
ScenarioScripts ==
    {<< Reply("nil", "MessagesMessagesSlice", Users(5) \o Services(s[1]), 0, o[1]),
        Reply("nil", "MessagesMessagesSlice", Services(s[2]) \o Users(5), 0, o[2]),
        Reply("nil", "MessagesMessagesObj", Users(2) \o Services(s[3]), 0, 0) >> :
     o \in {x \in (1..MaxOffset) \X (1..MaxOffset + 1) : x[1] < x[2]},
     s \in {<<0, 0, 0>>, <<1, 0, 0>>, <<0, 1, 1>>}}

NoPage == [asked |-> -1, incomplete |-> FALSE, next |-> -1, matched |-> FALSE]

\* the record of the searches of one call: how many (counted up to
\* MaxSearches + 1), the first offset, the offsets requested so far and
\* whether one of them was requested twice
NoSearch == [n |-> 0, first |-> -1, seen |-> {}, repeated |-> FALSE]

Asked(log, offset) ==
    [n |-> IF log.n <= MaxSearches THEN log.n + 1 ELSE log.n,
     first |-> IF log.n = 0 THEN offset ELSE log.first,
     seen |-> log.seen \cup {offset},
     repeated |-> log.repeated \/ offset \in log.seen]

ItIdle ==
    /\ itFn = "none" /\ itPc = "idle" /\ itOffset = 0 /\ itItems = 0
    /\ itObjects = <<>> /\ itErr = "nil" /\ itAsked = NoSearch /\ itLast = NoPage
    /\ itUserSeen = 0 /\ itScript = <<>> /\ itScenario = FALSE

\* a call of Objects(topic) or ObjectSearch(topic, query) begins
ItStart(fn) ==
    /\ UNCHANGED <<cfgVars, pureVars, auxVars, gwVars, fsVars>>
    /\ itPc \in {"idle", "done"}
    /\ itFn' = fn
    /\ itPc' = "loop"
    /\ itOffset' = 0
    /\ itItems' = 0
    /\ itObjects' = <<>>
    /\ itErr' = "nil"
    /\ itAsked' = NoSearch
    /\ itLast' = NoPage
    /\ itUserSeen' = 0
    /\ UNCHANGED itHasMessages
    /\ \/ itScript' = <<>> /\ itScenario' = FALSE
       \/ /\ fn = "Objects" /\ itHasMessages
          /\ itScript' \in ScenarioScripts /\ itScenario' = TRUE

\* the reply to the search about to be made
ItReplies ==
    IF itScript # <<>> THEN {Head(itScript)}
    ELSE RemoteReplies(itHasMessages /\ itAsked.n < MaxSearches)

ItRecord(resp) ==
    /\ itAsked' = Asked(itAsked, itOffset)
    /\ itLast' = IF resp.err = "nil"
                 THEN [asked |-> itOffset, incomplete |-> resp.incomplete,
                       next |-> resp.next,
                       matched |-> \E i \in 1..Len(resp.messages) :
                                      resp.messages[i] = MessageObj(ItQuery)]
                 ELSE NoPage
    /\ itUserSeen' = itUserSeen + CountObj(resp.messages)
    /\ itScript' = IF itScript = <<>> THEN <<>> ELSE Tail(itScript)
    /\ UNCHANGED <<itFn, itScenario, itHasMessages>>

\* one turn of the loop of Objects
ObjectsStep ==
    /\ UNCHANGED <<cfgVars, pureVars, auxVars, gwVars, fsVars>>
    /\ itFn = "Objects" /\ itPc = "loop"
    /\ \E r \in ItReplies :
         LET resp == SearchMessagesTopic(r, itOffset)
         IN  /\ ItRecord(resp)
             /\ IF resp.err # "nil"
                THEN /\ itErr' = resp.err /\ itPc' = "done"
                     /\ UNCHANGED <<itOffset, itItems, itObjects>>
                ELSE /\ itItems' = itItems + PageItems(resp.amount, resp.messages)
                     /\ itObjects' = itObjects \o PageObjects(resp.messages, ItTopicTitle)
                     /\ itErr' = "nil"
                     /\ IF KeepLooping(resp.incomplete, itOffset, resp.next)
                        THEN itOffset' = resp.next /\ itPc' = "loop"
                        ELSE itOffset' = itOffset /\ itPc' = "done"

\* one turn of the loop of ObjectSearch
ObjectSearchStep ==
    /\ UNCHANGED <<cfgVars, pureVars, auxVars, gwVars, fsVars>>
    /\ itFn = "ObjectSearch" /\ itPc = "loop"
    /\ \E r \in ItReplies :
         LET resp == SearchMessagesTopic(r, itOffset)
             match == PageMatch(resp.messages, ItQuery)
         IN  /\ ItRecord(resp)
             /\ UNCHANGED itItems
             /\ IF resp.err # "nil"
                THEN /\ itErr' = resp.err /\ itPc' = "done"
                     /\ UNCHANGED <<itOffset, itObjects>>
                ELSE IF match # <<>>
                THEN /\ itObjects' = match /\ itErr' = "nil" /\ itPc' = "done"
                     /\ UNCHANGED itOffset
                ELSE /\ itObjects' = <<>>
                     /\ IF KeepLooping(resp.incomplete, itOffset, resp.next)
                        THEN itOffset' = resp.next /\ itPc' = "loop" /\ itErr' = "nil"
                        ELSE /\ itOffset' = itOffset /\ itPc' = "done"
                             /\ itErr' = "ErrorObjectNotFound"

InitIter ==
    /\ ItIdle /\ itHasMessages \in BOOLEAN /\ CfgDefault /\ GwIdle /\ FsIdle
    /\ ClIdle /\ HsIdle /\ TIdle /\ AuxIdle

\* the searches of a topic that holds no message: every page is empty
InitIterEmpty ==
    /\ ItIdle /\ itHasMessages = FALSE /\ CfgDefault /\ GwIdle /\ FsIdle
    /\ ClIdle /\ HsIdle /\ TIdle /\ AuxIdle

NextIter ==
    \/ ItStart("Objects")
    \/ ItStart("ObjectSearch")
    \/ ObjectsStep
    \/ ObjectSearchStep

SpecIter == InitIter /\ [][NextIter]_vars

\* a call that is running keeps running: the loop takes its next turn
FairSpecIter ==
    /\ InitIterEmpty /\ [][NextIter]_vars
    /\ WF_vars(ObjectsStep) /\ WF_vars(ObjectSearchStep)

\* api.SearchMessagesTopic of the earlier implementation, decoding of the
\* reply: an error of the search is returned as it is
ApiSearchMessagesTopic(r, offset) ==
    IF r.err # "nil"
    THEN [messages |-> <<>>, amount |-> 0, incomplete |-> FALSE,
          next |-> offset, err |-> r.err]
    ELSE SearchMessagesTopic(r, offset)

\* one turn of the emptiness scan of the earlier Rmdir, and the delete that
\* follows the scan; `count` is kept in itItems, `offset` in itOffset
RmdirScan ==
    /\ UNCHANGED <<cfgVars, pureVars, auxVars, gwVars, fsVars>>
    /\ itFn = "Rmdir" /\ itPc = "loop"
    /\ \E r \in ItReplies :
         LET resp == ApiSearchMessagesTopic(r, itOffset)
             count == itItems + resp.amount
         IN  /\ ItRecord(resp)
             /\ UNCHANGED <<itOffset, itObjects>>
             /\ IF resp.err # "nil"
                THEN itErr' = resp.err /\ itPc' = "done" /\ UNCHANGED itItems
                ELSE /\ itItems' = count
                     /\ IF count > 1
                        THEN itErr' = "ErrDirectoryNotRemoved" /\ itPc' = "done"
                        ELSE IF KeepLooping(resp.incomplete, itOffset, resp.next)
                        THEN itErr' = "nil" /\ itPc' = "loop"
                        ELSE /\ itPc' = "done"
                             /\ itErr' \in {"nil", "ErrDirectoryNotRemoved"}

NextScan == ItStart("Rmdir") \/ RmdirScan

SpecScan == InitIter /\ [][NextScan]_vars

\* an Rmdir that is running keeps running: the scan takes its next turn
FairSpecScan == SpecScan /\ WF_vars(RmdirScan)

-----------------------------------------------------------------------------
(* Properties of the iterator *)

\* C6: against the three-page result set (5, 5 and 2 user messages, the first
\* two pages incomplete with advancing offsets, the third complete) Objects
\* returns without error exactly 12 objects and a count of 12, after exactly
\* 3 searches, no two of them at the same offset.
C6_ThreePages ==
    (itScenario /\ itPc = "done") =>
        /\ itErr = "nil"
        /\ Len(itObjects) = 12
        /\ itItems = 12
        /\ itAsked.n = 3
        /\ ~itAsked.repeated

C6_Witness ==
    /\ itScenario /\ itPc = "done" /\ Len(itObjects) = 12
    /\ itUserSeen = 12 /\ Cardinality(itAsked.seen) = 3

\* C7: in Objects and in ObjectSearch, once an incomplete page came back with
\* a continuation offset equal to the offset it was requested with, the
\* function has returned: the loop is left and no further search is made.
C7_SameOffsetIsFinal ==
    (itLast.incomplete /\ itLast.next = itLast.asked) => itPc = "done"

C7_Witness ==
    /\ itFn = "ObjectSearch" /\ itPc = "done" /\ itErr = "ErrorObjectNotFound"
    /\ itLast.incomplete /\ itLast.next = itLast.asked /\ itLast.asked > 0
    /\ itAsked.n = 2

C7_WitnessObjects ==
    /\ itFn = "Objects" /\ itPc = "done" /\ itErr = "nil"
    /\ itLast.incomplete /\ itLast.next = itLast.asked /\ itLast.asked > 0

\* C8: every call of Objects and of ObjectSearch makes its first search at
\* offset zero and returns after finitely many searches, whatever pages the
\* remote returns.
C8_StartsAtZeroAndTerminates ==
    /\ [](itAsked.n > 0 => itAsked.first = 0)
    /\ ((itPc = "loop") ~> (itPc = "done"))

\* C29: ObjectSearch returns a message only when its body is the query; a
\* page that holds such a message ends the call with that message, whatever
\* the page says about further pages; object-not-found is returned only when
\* no page examined held such a message and the last one was the final page.
C29_ExactMatchStopsSearch ==
    itFn = "ObjectSearch" =>
        /\ (itPc = "done" /\ itErr = "nil") =>
               (Len(itObjects) = 1 /\ itObjects[1].type = "MessageObj"
                /\ itObjects[1].body = ItQuery /\ itLast.matched)
        /\ itLast.matched => (itPc = "done" /\ itErr = "nil")
        /\ itErr = "ErrorObjectNotFound" =>
               (/\ itPc = "done" /\ ~itLast.matched /\ itLast.asked >= 0
                /\ ~(itLast.incomplete /\ itLast.next # itLast.asked))

C29_Witness ==
    /\ itFn = "ObjectSearch" /\ itPc = "done" /\ itErr = "nil"
    /\ itLast.matched /\ itLast.incomplete /\ itLast.next # itLast.asked
    /\ itAsked.n = 2 /\ itUserSeen = 2

C29_WitnessNotFound ==
    /\ itFn = "ObjectSearch" /\ itPc = "done" /\ itErr = "ErrorObjectNotFound"
    /\ itAsked.n = 2 /\ itUserSeen = 2 /\ ~itLast.incomplete

\* C9: the count Objects returns is the number of user (MessageObj) entries
\* of the pages it fetched, and no entry of another kind is among the
\* objects it returns.
C9_CountIsUserMessages ==
    (itFn = "Objects" /\ itPc = "done" /\ itErr = "nil") =>
        /\ itItems = itUserSeen
        /\ \A i \in 1..Len(itObjects) : itObjects[i].type = "MessageObj"

\* C39: in the earlier Rmdir, after an incomplete page whose continuation
\* offset differs from the offset requested, the next search is made at the
\* offset the page returned, and every scan ends (with the delete or with an
\* error) whatever pages the remote returns.
C39_ScanAdvancesAndEnds ==
    /\ []((itFn = "Rmdir" /\ itPc = "loop" /\ itLast # NoPage)
             => itOffset = itLast.next)
    /\ ((itFn = "Rmdir" /\ itPc = "loop") ~> (itPc = "done"))

-----------------------------------------------------------------------------
(* The request gateway: pacer.Call around one remote invocation, the channel
   cache and the topic-listing cache, for a single calling thread *)

GwOps == {"GetChannel", "GetTopics", "CreateTopic", "SearchMessagesTopic", "DeleteTopic"}

\* the payloads a successful remote invocation can carry
Payloads == {"p1", "p2"}

\* what one remote invocation can answer, per operation: a payload, the
\* throttling status 420, another RPC error, or a success without the part
\* the operation looks for
RemoteOutcomes(op) ==
    {"flood", "rpc"} \cup Payloads \cup
    CASE op = "GetChannel" -> {"nomatch"}
      [] op = "GetTopics" -> {}
      [] op = "CreateTopic" -> {"noreceipt"}
      [] op = "SearchMessagesTopic" -> {"unknownshape"}
      [] OTHER -> {}

Frame(op, pc) ==
    [op |-> op, pc |-> pc, tries |-> 0, floods |-> 0, last |-> "none",
     retry |-> FALSE, err |-> "nil", payload |-> "none", sent |-> "none",
     checked |-> FALSE]

Top == gwStack[Len(gwStack)]

SetTop(f) == [gwStack EXCEPT ![Len(gwStack)] = f]

\* the check for the flood wait status in each wrapped function
IsFloodWait_Never(outcome) == FALSE

IsFloodWait(outcome) == outcome = "flood"

\* what the wrapped function returns to the pacer after the remote answered:
\* (retry, err) and the value it captured for its caller
FnResult(op, outcome) ==
    IF IsFloodWait(outcome)
    THEN [retry |-> TRUE, err |-> "ErrFloodWait", payload |-> "none"]
    ELSE IF outcome \in {"rpc", "flood"}
    THEN [retry |-> FALSE,
          err |-> IF op = "SearchMessagesTopic" THEN "ErrOperationWithoutUpdates"
                  ELSE IF outcome = "flood" THEN "ErrFloodWait" ELSE "ErrRPC",
          payload |-> "none"]
    ELSE IF outcome = "unknownshape"
    THEN [retry |-> FALSE, err |-> "ErrOperationWithoutUpdates", payload |-> "none"]
    ELSE IF outcome \in {"nomatch", "noreceipt"}
    THEN [retry |-> FALSE, err |-> "nil", payload |-> "nil"]
    ELSE [retry |-> FALSE, err |-> "nil", payload |-> outcome]

\* what the operation returns once pacer.Call returned err
OpReturn(op, err, payload) ==
    IF err # "nil"
    THEN [err |-> IF op = "GetChannel" THEN "ErrInvalidChannel" ELSE err,
          payload |-> "none"]
    ELSE [err |-> "nil", payload |-> payload]

\* a loader that reports success whatever it captured
LoaderOk_Always(f) == TRUE

\* the success flag of the loaders of GetChannel and GetTopics:
\* channel != nil, topics != nil
LoaderOk(f) == f.payload \in Payloads

\* cache.Get stores what the loader returned when it reported success
Stored(cached, f, err) ==
    IF LoaderOk(f) /\ maxCacheTime > 0
    THEN (IF f.payload = "none" THEN "nil" ELSE f.payload)
    ELSE cached

\* both operations reading the one cache tc.channels
CacheOf_OneCache(op) ==
    CASE op \in {"GetChannel", "GetTopics"} -> chanCache
      [] OTHER -> "none"

\* the cache an operation reads: tc.channels for GetChannel, tc.topics for
\* GetTopics, none for the others
CacheOf(op) ==
    CASE op = "GetChannel" -> chanCache
      [] op = "GetTopics" -> topicsCache
      [] OTHER -> "none"

\* a caller invokes one of the operations; GetChannel and GetTopics look into
\* their cache first and run the loader only on a miss
GwCall(op) ==
    /\ gwStack = <<>> /\ gwRet.op # "panic"
    /\ LET cached == CacheOf(op)
       IN gwStack' = IF cached # "none"
                     THEN <<[Frame(op, "ret") EXCEPT !.payload = cached]>>
                     ELSE <<Frame(op, "begin")>>
    /\ gwRet' = NoReturn
    /\ UNCHANGED <<gwTokens, tcpActive, chanCache, topicsCache, cfgVars, pureVars, auxVars, itVars, fsVars>>

\* pacer.Call takes a connection token before it runs the function
PacerBegin ==
    /\ gwStack # <<>> /\ Top.pc = "begin" /\ gwTokens > 0
    /\ gwTokens' = gwTokens - 1
    /\ gwStack' = SetTop([Top EXCEPT !.pc = "connect", !.checked = FALSE])
    /\ UNCHANGED <<gwRet, tcpActive, chanCache, topicsCache, cfgVars, pureVars, auxVars, itVars, fsVars>>

\* tc.MTProto(): ActiveReconnect repairs a dropped transport or fails
FnConnect ==
    /\ gwStack # <<>> /\ Top.pc = "connect"
    /\ LET go == IF Top.op = "GetChannel" THEN "invoke" ELSE "channel"
       IN \/ /\ tcpActive
             /\ gwStack' = SetTop([Top EXCEPT !.pc = go, !.checked = TRUE])
             /\ UNCHANGED tcpActive
          \/ /\ ~tcpActive
             /\ tcpActive' = TRUE
             /\ gwStack' = SetTop([Top EXCEPT !.pc = go, !.checked = TRUE])
          \/ /\ ~tcpActive
             /\ gwStack' = SetTop([Top EXCEPT !.pc = "end", !.retry = FALSE,
                                              !.err = "ErrReconnect",
                                              !.last = "noconnect"])
             /\ UNCHANGED tcpActive
    /\ UNCHANGED <<gwTokens, gwRet, chanCache, topicsCache, cfgVars, pureVars, auxVars, itVars, fsVars>>

\* tc.GetChannel(ctx) inside the wrapped function: a cache hit, or the loader
\* with its own pacer.Call
FnChannel ==
    /\ gwStack # <<>> /\ Top.pc = "channel"
    /\ gwStack' = IF chanCache # "none"
                  THEN SetTop([Top EXCEPT !.pc = "invoke"])
                  ELSE Append(gwStack, Frame("GetChannel", "begin"))
    /\ UNCHANGED <<gwTokens, gwRet, tcpActive, chanCache, topicsCache, cfgVars, pureVars, auxVars, itVars, fsVars>>

\* the nested GetChannel returned to the wrapped function
FnChannelBack ==
    /\ Len(gwStack) = 2 /\ Top.pc = "ret"
    /\ LET outer == gwStack[1]
       IN IF Top.err # "nil"
          THEN /\ gwStack' = <<[outer EXCEPT !.pc = "end", !.retry = FALSE,
                                             !.err = Top.err,
                                             !.last = "nochannel"]>>
               /\ UNCHANGED gwRet
          ELSE IF Top.payload = "nil"
          THEN \* channel.AccessHash on a nil channel
               /\ gwStack' = <<>>
               /\ gwRet' = [NoReturn EXCEPT !.op = "panic"]
          ELSE /\ gwStack' = <<[outer EXCEPT !.pc = "invoke"]>>
               /\ UNCHANGED gwRet
    /\ UNCHANGED <<gwTokens, tcpActive, chanCache, topicsCache, cfgVars, pureVars, auxVars, itVars, fsVars>>

\* the remote invocation and the rest of the wrapped function
FnInvoke ==
    /\ gwStack # <<>> /\ Top.pc = "invoke"
    /\ \E outcome \in RemoteOutcomes(Top.op) :
         LET r == FnResult(Top.op, outcome)
         IN gwStack' = SetTop([Top EXCEPT !.pc = "end",
                 !.retry = r.retry, !.err = r.err,
                 !.payload = IF r.retry THEN @ ELSE r.payload,
                 !.sent = IF outcome \in Payloads THEN outcome ELSE @,
                 !.last = outcome,
                 !.floods = IF outcome = "flood" THEN @ + 1 ELSE @])
    /\ UNCHANGED <<gwTokens, gwRet, tcpActive, chanCache, topicsCache, cfgVars, pureVars, auxVars, itVars, fsVars>>

\* pacer.Call gives the token back, then retries or returns; on return the
\* operation finishes (cache store, error mapping)
PacerEnd ==
    /\ gwStack # <<>> /\ Top.pc = "end"
    /\ gwTokens' = gwTokens + 1
    /\ IF Top.retry /\ Top.tries < maxRetries
       THEN /\ gwStack' = SetTop([Top EXCEPT !.pc = "begin", !.tries = @ + 1])
            /\ UNCHANGED <<chanCache, topicsCache>>
       ELSE LET r == OpReturn(Top.op, Top.err, Top.payload)
            IN /\ gwStack' = SetTop([Top EXCEPT !.pc = "ret", !.err = r.err,
                                                !.payload = r.payload])
               /\ chanCache' = IF Top.op = "GetChannel"
                               THEN Stored(chanCache, Top, Top.err) ELSE chanCache
               /\ topicsCache' = IF Top.op = "GetTopics"
                                 THEN Stored(topicsCache, Top, Top.err) ELSE topicsCache
    /\ UNCHANGED <<gwRet, tcpActive, cfgVars, pureVars, auxVars, itVars, fsVars>>

\* the operation returns to its caller
GwReturn ==
    /\ Len(gwStack) = 1 /\ Top.pc = "ret"
    /\ gwRet' = [op |-> Top.op, err |-> Top.err, payload |-> Top.payload,
                 sent |-> Top.sent, floods |-> Top.floods, last |-> Top.last]
    /\ gwStack' = <<>>
    /\ UNCHANGED <<gwTokens, tcpActive, chanCache, topicsCache, cfgVars, pureVars, auxVars, itVars, fsVars>>

\* the transport drops
TcpDrop ==
    /\ tcpActive /\ tcpActive' = FALSE
    /\ UNCHANGED <<gwStack, gwTokens, gwRet, chanCache, topicsCache, cfgVars, pureVars, auxVars, itVars, fsVars>>

\* the expiry deadline of the cache entries passes
CacheExpire ==
    /\ chanCache # "none" \/ topicsCache # "none"
    /\ \/ chanCache' = "none" /\ UNCHANGED topicsCache
       \/ topicsCache' = "none" /\ UNCHANGED chanCache
    /\ chanCache' # chanCache \/ topicsCache' # topicsCache
    /\ UNCHANGED <<gwStack, gwTokens, gwRet, tcpActive, cfgVars, pureVars, auxVars, itVars, fsVars>>

InitGw ==
    /\ maxRetries \in 0..MaxRetryBudget
    /\ maxConnections \in 1..MaxConn
    /\ maxCacheTime \in {0, MaxCacheTimeDefault}
    /\ GwIdle
    /\ ItIdle /\ itHasMessages = FALSE
    /\ FsIdle
    /\ ClIdle /\ HsIdle /\ TIdle /\ AuxIdle

NextGw ==
    \/ \E op \in GwOps : GwCall(op)
    \/ PacerBegin
    \/ FnConnect
    \/ FnChannel
    \/ FnChannelBack
    \/ FnInvoke
    \/ PacerEnd
    \/ GwReturn
    \/ TcpDrop
    \/ CacheExpire

SpecGw == InitGw /\ [][NextGw]_vars

\* C10: a wrapped call whose remote invocation answered 420 three times and
\* then succeeded returns the payload the remote sent and no error; and a
\* call that returns after at most three throttles, the last answer being a
\* throttle, had a retry budget below three.
C10_ThrottledThenSuccess ==
    /\ (gwRet.floods = 3 /\ gwRet.last \in Payloads)
          => (gwRet.err = "nil" /\ gwRet.payload = gwRet.last)
    /\ (gwRet.last = "flood" /\ gwRet.floods <= 3) => maxRetries < 3

C10_Witness ==
    /\ gwRet.op = "GetTopics" /\ gwRet.floods = 3 /\ gwRet.last \in Payloads
    /\ gwRet.err = "nil" /\ gwRet.payload = gwRet.last /\ maxRetries >= 3

\* C11: an operation whose remote invocation was throttled on every attempt,
\* the last one included (the retry budget is used up), returns the
\* throttling error itself.
C11_ThrottleSurfacesVerbatim ==
    (gwRet.last = "flood" /\ gwRet.floods = maxRetries + 1)
        => gwRet.err = "ErrFloodWait"

\* C12: an operation whose remote invocation answered an error other than the
\* throttling status is not retried (the activation that saw the error never
\* goes back to the pacer's begin) and returns that same error.
C12_OtherErrorVerbatim ==
    /\ \A i \in 1..Len(gwStack) :
          gwStack[i].last = "rpc" => (gwStack[i].pc \in {"end", "ret"}
                                      /\ ~gwStack[i].retry)
    /\ gwRet.last = "rpc" => gwRet.err = "ErrRPC"

-----------------------------------------------------------------------------
(* The filesystem over the remote channel: Mkdir / CreateTopic, Rmdir /
   DeleteTopic, List and NewObject, with the topic-listing cache *)

\* mtproto.ChannelsGetForumTopics with Q = search: the topics whose title
\* begins with the search text
Matching(search) == {t \in rTopics : HasPrefix(t.title, search)}

\* TelegramClient.GetTopics(search): every way the call can end, as
\*   err, topics (a list kept in id order, held as a set) and the cache after
GetTopics(search) ==
    IF fsTopics[search].hit
    THEN {[err |-> "nil", topics |-> fsTopics[search].topics, cache |-> fsTopics]}
    ELSE {[err |-> "nil", topics |-> Matching(search),
           cache |-> IF maxCacheTime > 0
                     THEN [fsTopics EXCEPT ![search] = Cached(Matching(search))]
                     ELSE fsTopics],
          [err |-> "ErrRemote", topics |-> {}, cache |-> fsTopics]}

\* the first / the last topic of a list with the given title, NoTopic if none
FirstTitled(topics, title) ==
    LET same == {t \in topics : t.title = title}
    IN IF same = {} THEN NoTopic
       ELSE CHOOSE t \in same : \A u \in same : t.id <= u.id

LastTitled(topics, title) ==
    LET same == {t \in topics : t.title = title}
    IN IF same = {} THEN NoTopic
       ELSE CHOOSE t \in same : \A u \in same : t.id >= u.id

Children_Prefix(topics, topic) ==
    {t \in topics : HasPrefix(t.title, topic.title) /\ t.title # topic.title}

\* Filesystem.DirectoriesFrom: the entries of a list whose parent is the topic
Children(topics, topic) == {t \in topics : PathDir(t.title) = topic.title}

\* the file a topic may hold
FileOf(title) == title \o <<"/", "f">>

\* what the remote may answer to a search in a topic: pages made of the
\* topic's user message and of its service message, in each reply shape
TopicReplies(topic) ==
    LET user == IF topic.id \in rUser THEN <<MessageObj(FileOf(topic.title))>>
                ELSE <<>>
        all == user \o <<MessageService>>
        pages == {<<>>, user, <<MessageService>>, all}
        counts == {Len(user), Len(all)}
    IN  {Reply("nil", "MessagesMessagesObj", pg, 0, 0) : pg \in {user, all}}
        \cup {Reply("nil", "MessagesMessagesSlice", pg, 0, off) :
                 pg \in pages, off \in 0..1}
        \cup {r \in {Reply("nil", "MessagesChannelMessages", pg, n, off) :
                        pg \in pages, n \in counts, off \in 0..1} :
                 r.count >= Len(r.messages)}
        \cup {Reply("nil", "MessagesMessagesNotModified", <<>>, n, 0) : n \in counts}
        \cup {Reply("ErrRPC", "none", <<>>, 0, 0)}

\* Filesystem.Objects(topic): every way the loop can end within the fuel, as
\*   err, items and the number of objects
RECURSIVE ObjectsFrom(_, _, _, _, _)
ObjectsFrom(topic, offset, items, objects, fuel) ==
    UNION {
        LET r == SearchMessagesTopic(reply, offset)
            n == items + PageItems(r.amount, r.messages)
            o == objects + Len(PageObjects(r.messages, topic.title))
        IN  IF r.err # "nil"
            THEN {[err |-> r.err, items |-> items, objects |-> objects]}
            ELSE IF KeepLooping(r.incomplete, offset, r.next)
            THEN IF fuel = 0 THEN {}
                 ELSE ObjectsFrom(topic, r.next, n, o, fuel - 1)
            ELSE {[err |-> "nil", items |-> n, objects |-> o]}
        : reply \in TopicReplies(topic) }

Objects(topic) == ObjectsFrom(topic, 0, 0, 0, MaxFuel)

\* Filesystem.ObjectSearch(topic, query): every way the loop can end
RECURSIVE ObjectSearchFrom(_, _, _, _)
ObjectSearchFrom(topic, query, offset, fuel) ==
    UNION {
        LET r == SearchMessagesTopic(reply, offset)
        IN  IF r.err # "nil" THEN {r.err}
            ELSE IF PageMatch(r.messages, query) # <<>> THEN {"nil"}
            ELSE IF KeepLooping(r.incomplete, offset, r.next)
            THEN IF fuel = 0 THEN {}
                 ELSE ObjectSearchFrom(topic, query, r.next, fuel - 1)
            ELSE {"ErrorObjectNotFound"}
        : reply \in TopicReplies(topic) }

ObjectSearch(topic, query) == ObjectSearchFrom(topic, query, 0, MaxFuel)

\* the relative paths the callers pass
DirRels == {<<>>, <<"a">>, <<"a", "/", "b">>}

ListRels == {<<>>, <<"a">>}

ObjRels == {<<"a", "/", "f">>, <<"a", "/", "b">>}

\* the filesystem is mounted at the root of the remote
FsRoot == <<>>

\* the root of a filesystem made for one file
FileRoot == <<"a", "/", "f">>

\* whether the remote holds a child topic or a user message of the topic
RemoteNonEmpty(topic) ==
    \/ \E ch \in rTopics : PathDir(ch.title) = topic.title
    \/ topic.id \in rUser

\* an operation begins
Begin(c, op, pc, relative, query, topic) ==
    /\ fsCall[c].pc = "idle"
    /\ fsCall' = [fsCall EXCEPT ![c] =
          [op |-> op, pc |-> pc, query |-> query, relative |-> relative,
           topic |-> topic,
           res |-> [NoRes EXCEPT !.op = op, !.query = query,
                       !.relative = relative,
                       !.absent = ~\E t \in rTopics : t.title = query]]]
    /\ fsRes' = [fsRes EXCEPT ![c] = NoRes]
    /\ fsPrev' = [fsPrev EXCEPT ![c] =
                     IF op = "CreateTopic" /\ fsRes[c].op = "CreateTopic"
                     THEN fsRes[c]
                     ELSE IF /\ op = "List" /\ fsRes[c].op = "Mkdir"
                             /\ fsRes[c].err = "nil"
                             /\ query = PathDir(fsRes[c].query)
                     THEN [NoRes EXCEPT !.op = "Mkdir",
                                        !.query = fsRes[c].query,
                                        !.relative = fsRes[c].relative]
                     ELSE NoRes]

\* an operation returns
Finish(c, res) ==
    /\ fsCall' = [fsCall EXCEPT ![c] = NoCall]
    /\ fsRes' = [fsRes EXCEPT ![c] = res]
    /\ UNCHANGED fsPrev

Goto(c, pc, topic, res) ==
    /\ fsCall' = [fsCall EXCEPT ![c].pc = pc, ![c].topic = topic, ![c].res = res]
    /\ UNCHANGED <<fsRes, fsPrev>>

StartMkdir(c, relative) ==
    /\ Begin(c, "Mkdir", "ct_lock", relative, Locate(FsRoot, relative), NoTopic)
    /\ UNCHANGED <<rTopics, rNext, rUser, lockDirectories, fsTopics,
                   cfgVars, pureVars, auxVars, gwVars, itVars>>

StartCreateTopic(c, title) ==
    /\ Begin(c, "CreateTopic", "ct_lock", <<>>, title, NoTopic)
    /\ UNCHANGED <<rTopics, rNext, rUser, lockDirectories, fsTopics,
                   cfgVars, pureVars, auxVars, gwVars, itVars>>

\* Mkdir: how the result of CreateTopic is mapped
MkdirErr(op, err) ==
    IF op = "Mkdir" /\ err # "nil" THEN "ErrorDirNotFound" ELSE err

\* CreateTopic: take lockDirectories, GetTopics(title), look for the title
CtGet(c) ==
    LET call == fsCall[c]
    IN
    /\ call.pc = "ct_lock" /\ lockDirectories = 0
    /\ \E out \in GetTopics(call.query) :
         LET old == FirstTitled(out.topics, call.query)
         IN /\ fsTopics' = out.cache
            /\ IF out.err # "nil"
               THEN /\ Finish(c, [call.res EXCEPT !.err = MkdirErr(call.op, out.err),
                                                  !.remoteErr = TRUE])
                    /\ UNCHANGED lockDirectories
               ELSE IF old # NoTopic
               THEN /\ Finish(c, [call.res EXCEPT !.id = old.id])
                    /\ UNCHANGED lockDirectories
               ELSE /\ Goto(c, "ct_create", NoTopic, call.res)
                    /\ lockDirectories' = c
    /\ UNCHANGED <<rTopics, rNext, rUser, cfgVars, pureVars, auxVars, gwVars, itVars>>

\* CreateTopic: the remote create and the scan of its updates for the receipt
CtCreate(c) ==
    LET call == fsCall[c]
    IN
    /\ call.pc = "ct_create"
    /\ lockDirectories' = 0
    /\ \/ /\ rNext <= MaxTopicId
          /\ rTopics' = rTopics \cup {Topic(rNext, call.query)}
          /\ rNext' = rNext + 1
          /\ \/ Finish(c, [call.res EXCEPT !.created = TRUE, !.id = rNext,
                                           !.issued = TRUE])
             \/ \* no service message among the updates: topic stays nil
                Finish(c, [call.res EXCEPT !.issued = TRUE])
       \/ /\ Finish(c, [call.res EXCEPT !.err = MkdirErr(call.op, "ErrRemote"),
                                        !.remoteErr = TRUE, !.issued = TRUE])
          /\ UNCHANGED <<rTopics, rNext>>
    /\ UNCHANGED <<rUser, fsTopics, cfgVars, pureVars, auxVars, gwVars, itVars>>

StartRmdir(c, relative) ==
    /\ Begin(c, "Rmdir", "rm_dir", relative, Locate(FsRoot, relative), NoTopic)
    /\ UNCHANGED <<rTopics, rNext, rUser, lockDirectories, fsTopics,
                   cfgVars, pureVars, auxVars, gwVars, itVars>>

\* Rmdir: Directory(query)
RmDir(c) ==
    LET call == fsCall[c]
    IN
    /\ call.pc = "rm_dir"
    /\ \E out \in GetTopics(call.query) :
         LET topic == LastTitled(out.topics, call.query)
         IN /\ fsTopics' = out.cache
            /\ IF out.err # "nil" \/ topic = NoTopic
               THEN Finish(c, [call.res EXCEPT !.err = "ErrorDirNotFound",
                                               !.remoteErr = (out.err # "nil")])
               ELSE Goto(c, "rm_children", topic,
                         [call.res EXCEPT !.found = (topic \in rTopics),
                                          !.id = topic.id])
    /\ UNCHANGED <<rTopics, rNext, rUser, lockDirectories, cfgVars, pureVars, auxVars, gwVars, itVars>>

\* Rmdir: DirectoriesFrom(topic) and the check for children
RmChildren(c) ==
    LET call == fsCall[c]
    IN
    /\ call.pc = "rm_children"
    /\ \E out \in GetTopics(call.topic.title) :
         /\ fsTopics' = out.cache
         /\ IF out.err # "nil"
            THEN Finish(c, [call.res EXCEPT !.err = "ErrorNotDeletingDirs",
                                            !.remoteErr = TRUE])
            ELSE IF Children(out.topics, call.topic) # {}
            THEN Finish(c, [call.res EXCEPT !.err = "ErrorDirectoryNotEmpty",
                               !.nonEmpty = RemoteNonEmpty(call.topic)])
            ELSE Goto(c, "rm_objects", call.topic, call.res)
    /\ UNCHANGED <<rTopics, rNext, rUser, lockDirectories, cfgVars, pureVars, auxVars, gwVars, itVars>>

\* Rmdir: Objects(topic) and the check for items
RmObjects(c) ==
    LET call == fsCall[c]
    IN
    /\ call.pc = "rm_objects"
    /\ \E o \in Objects(call.topic) :
         IF o.err # "nil"
         THEN Finish(c, [call.res EXCEPT !.err = "ErrorNotDeletingDirs",
                                         !.remoteErr = TRUE])
         ELSE IF o.items > 0
         THEN Finish(c, [call.res EXCEPT !.err = "ErrorDirectoryNotEmpty",
                            !.nonEmpty = RemoteNonEmpty(call.topic)])
         ELSE Goto(c, "dt_call", call.topic,
                   [call.res EXCEPT !.nonEmpty = RemoteNonEmpty(call.topic)])
    /\ UNCHANGED <<rTopics, rNext, rUser, lockDirectories, fsTopics,
                   cfgVars, pureVars, auxVars, gwVars, itVars>>

StartDeleteTopic(c, topic) ==
    /\ topic \in rTopics
    /\ Begin(c, "DeleteTopic", "dt_call", <<>>, topic.title, topic)
    /\ UNCHANGED <<rTopics, rNext, rUser, lockDirectories, fsTopics,
                   cfgVars, pureVars, auxVars, gwVars, itVars>>

\* the guard of DeleteTopic for the default topic
IsRootTopic_Never(topic) == FALSE

IsRootTopic(topic) == topic.id = ChannelRootTopicId

\* Rmdir: how the result of DeleteTopic is mapped
RmdirErr(op, err) ==
    IF op = "Rmdir" /\ err # "nil" THEN "ErrorNotDeletingDirs" ELSE err

\* DeleteTopic(topic), under lockDirectories
DtCall(c) ==
    LET call == fsCall[c]
        res == [call.res EXCEPT !.id = call.topic.id]
    IN
    /\ call.pc = "dt_call" /\ lockDirectories = 0
    /\ IF IsRootTopic(call.topic)
       THEN /\ Finish(c, [res EXCEPT
                             !.err = RmdirErr(call.op, "ErrUnsupportedOperation")])
            /\ UNCHANGED <<rTopics, rUser>>
       ELSE \/ /\ rTopics' = {t \in rTopics : t.id # call.topic.id}
               /\ rUser' = rUser \ {call.topic.id}
               /\ Finish(c, [res EXCEPT !.issued = TRUE,
                     !.orphan = /\ call.topic \in rTopics
                                /\ \E ch \in rTopics :
                                      PathDir(ch.title) = call.topic.title])
            \/ /\ Finish(c, [res EXCEPT !.issued = TRUE, !.remoteErr = TRUE,
                                        !.err = RmdirErr(call.op, "ErrRemote")])
               /\ UNCHANGED <<rTopics, rUser>>
    /\ UNCHANGED <<rNext, lockDirectories, fsTopics, cfgVars, pureVars, auxVars, gwVars, itVars>>

StartList(c, relative) ==
    /\ Begin(c, "List", "ls_dir", relative, Locate(FsRoot, relative), NoTopic)
    /\ UNCHANGED <<rTopics, rNext, rUser, lockDirectories, fsTopics,
                   cfgVars, pureVars, auxVars, gwVars, itVars>>

\* List("") on a filesystem whose root is the path of a file
StartListFile(c) ==
    /\ Begin(c, "List", "ls_dir", <<>>, Locate(FileRoot, <<>>), NoTopic)
    /\ UNCHANGED <<rTopics, rNext, rUser, lockDirectories, fsTopics,
                   cfgVars, pureVars, auxVars, gwVars, itVars>>

\* List: Directory(query)
LsDir(c) ==
    LET call == fsCall[c]
    IN
    /\ call.pc = "ls_dir"
    /\ \E out \in GetTopics(call.query) :
         LET topic == LastTitled(out.topics, call.query)
             res == [call.res EXCEPT !.remoteErr = (out.err # "nil"),
                        !.remote = [topics |-> rTopics, user |-> rUser]]
         IN /\ fsTopics' = out.cache
            /\ IF out.err = "nil" /\ topic # NoTopic
               THEN Goto(c, "ls_children", topic, [call.res EXCEPT !.found = TRUE])
               ELSE IF call.relative = <<>>
               THEN Goto(c, "ls_parent", NoTopic, res)
               ELSE Finish(c, [res EXCEPT !.err = "ErrorListAborted"])
    /\ UNCHANGED <<rTopics, rNext, rUser, lockDirectories, cfgVars, pureVars, auxVars, gwVars, itVars>>

\* List of the root that is no directory: the root may be a file of its parent
LsParent(c) ==
    LET call == fsCall[c]
        dir == PathDir(call.query)
        seen == [topics |-> rTopics, user |-> rUser]
    IN
    /\ call.pc = "ls_parent"
    /\ \E out \in GetTopics(dir) :
         LET topic == LastTitled(out.topics, dir)
             res == [call.res EXCEPT !.remote = seen,
                        !.remoteErr = (call.res.remoteErr \/ out.err # "nil")]
         IN /\ fsTopics' = out.cache
            /\ IF out.err # "nil" \/ topic = NoTopic
               THEN Finish(c, [res EXCEPT !.err = "ErrorDirNotFound"])
               ELSE \E e \in ObjectSearch(topic, call.query) :
                       IF e # "nil"
                       THEN Finish(c, [res EXCEPT !.err = "ErrorDirNotFound",
                                          !.searched = TRUE,
                                          !.remoteErr = (res.remoteErr
                                              \/ e # "ErrorObjectNotFound")])
                       ELSE Finish(c, [res EXCEPT !.entries = 1, !.files = 1,
                                          !.searched = TRUE,
                                          !.body = call.query])
    /\ UNCHANGED <<rTopics, rNext, rUser, lockDirectories, cfgVars, pureVars, auxVars, gwVars, itVars>>

\* the directory entry List builds for a child topic: its name is the title
\* without the filesystem's root and a slash, its items what Objects counted
DirEntry(subtopic, items) ==
    [id |-> subtopic.id,
     name |-> TrimPrefix(subtopic.title, TrailSlash(Root(FsRoot))),
     items |-> items]

\* List with a child whose failed enumeration ends the entry of that child
RECURSIVE ChildDirs_SkipFailed(_)
ChildDirs_SkipFailed(children) ==
    IF children = {} THEN {[dirs |-> {}, failed |-> {}]}
    ELSE LET subtopic == CHOOSE ch \in children : TRUE
             counts == { <<o.items, o.err # "nil">> : o \in Objects(subtopic) }
             rest == ChildDirs_SkipFailed(children \ {subtopic})
         IN  { [dirs |-> (IF n[2] THEN {} ELSE {DirEntry(subtopic, n[1])})
                            \cup r.dirs,
                failed |-> (IF n[2] THEN {subtopic.id} ELSE {}) \cup r.failed] :
                  n \in counts, r \in rest }

\* the directory entries List can build for the child topics: Objects runs
\* for every child, and List logs an error of a child and goes on with the
\* items counted so far.  `failed` holds the children whose Objects failed.
RECURSIVE ChildDirs(_)
ChildDirs(children) ==
    IF children = {} THEN {[dirs |-> {}, failed |-> {}]}
    ELSE LET subtopic == CHOOSE ch \in children : TRUE
             counts == { <<o.items, o.err # "nil">> : o \in Objects(subtopic) }
             rest == ChildDirs(children \ {subtopic})
         IN  { [dirs |-> {DirEntry(subtopic, n[1])} \cup r.dirs,
                failed |-> (IF n[2] THEN {subtopic.id} ELSE {}) \cup r.failed] :
                  n \in counts, r \in rest }

\* List: DirectoriesFrom(topic), Objects of every child, Objects(topic)
LsChildren(c) ==
    LET call == fsCall[c]
    IN
    /\ call.pc = "ls_children"
    /\ \E out \in GetTopics(call.topic.title) :
         LET children == Children(out.topics, call.topic)
         IN /\ fsTopics' = out.cache
            /\ IF out.err # "nil"
               THEN Finish(c, [call.res EXCEPT !.err = "ErrorListAborted",
                                  !.remoteErr = TRUE])
               ELSE \E cd \in ChildDirs(children), o \in Objects(call.topic) :
                       LET seen == [topics |-> rTopics, user |-> rUser]
                           res == [call.res EXCEPT
                                      !.dirs = cd.dirs, !.failed = cd.failed,
                                      !.listed = {ch.id : ch \in children},
                                      !.searched = TRUE,
                                      !.remote = seen]
                       IN
                       IF o.err # "nil"
                       THEN Finish(c, [res EXCEPT !.err = "ErrorListAborted",
                                          !.remoteErr = TRUE,
                                          !.entries = Cardinality(children)])
                       ELSE Finish(c, [res EXCEPT
                               !.entries = Cardinality(children) + o.objects,
                               !.files = o.objects])
    /\ UNCHANGED <<rTopics, rNext, rUser, lockDirectories, cfgVars, pureVars, auxVars, gwVars, itVars>>

StartNewObject(c, relative) ==
    /\ Begin(c, "NewObject", "no_dir", relative, Locate(FsRoot, relative), NoTopic)
    /\ UNCHANGED <<rTopics, rNext, rUser, lockDirectories, fsTopics,
                   cfgVars, pureVars, auxVars, gwVars, itVars>>

\* NewObject: Directory(path.Dir(query))
NoDir(c) ==
    LET call == fsCall[c]
        directoryName == PathDir(call.query)
    IN
    /\ call.pc = "no_dir"
    /\ \E out \in GetTopics(directoryName) :
         LET topic == LastTitled(out.topics, directoryName)
         IN /\ fsTopics' = out.cache
            /\ IF out.err # "nil" \/ topic = NoTopic
               THEN Finish(c, [call.res EXCEPT !.err = "ErrorDirNotFound",
                                              !.remoteErr = out.err # "nil"])
               ELSE Goto(c, "no_children", topic, call.res)
    /\ UNCHANGED <<rTopics, rNext, rUser, lockDirectories, cfgVars, pureVars, auxVars, gwVars, itVars>>

\* NewObject: DirectoriesFrom(topic), the check for a directory, ObjectSearch
NoChildren(c) ==
    LET call == fsCall[c]
    IN
    /\ call.pc = "no_children"
    /\ \E out \in GetTopics(call.topic.title) :
         /\ fsTopics' = out.cache
         /\ IF out.err # "nil"
            THEN Finish(c, [call.res EXCEPT !.err = "ErrorDirNotFound",
                                           !.remoteErr = TRUE])
            ELSE IF \E t \in Children(out.topics, call.topic) : t.title = call.query
            THEN Finish(c, [call.res EXCEPT !.err = "ErrorIsDir"])
            ELSE \E e \in ObjectSearch(call.topic, call.query) :
                    Finish(c, [call.res EXCEPT !.err = e,
                                  !.remoteErr = e \notin {"nil", "ErrorObjectNotFound"},
                                  !.entries = IF e = "nil" THEN 1 ELSE 0])
    /\ UNCHANGED <<rTopics, rNext, rUser, lockDirectories, cfgVars, pureVars, auxVars, gwVars, itVars>>

\* a file message is posted into a topic
Upload(topic) ==
    /\ topic \in rTopics /\ topic.id \notin rUser /\ topic.title = PathA
    /\ rUser' = rUser \cup {topic.id}
    /\ UNCHANGED <<rTopics, rNext, lockDirectories, fsTopics, fsCall, fsRes, fsPrev,
                   cfgVars, pureVars, auxVars, gwVars, itVars>>

\* the expiry deadline of the entries of the topic-listing cache passes
TopicsExpire ==
    /\ fsTopics # [key \in Keys |-> NotCached]
    /\ fsTopics' = [key \in Keys |-> NotCached]
    /\ UNCHANGED <<rTopics, rNext, rUser, lockDirectories, fsCall, fsRes, fsPrev,
                   cfgVars, pureVars, auxVars, gwVars, itVars>>

InitFs ==
    /\ maxRetries = 0 /\ maxConnections = 1
    /\ maxCacheTime \in {0, MaxCacheTimeDefault}
    /\ GwIdle
    /\ ItIdle /\ itHasMessages = FALSE
    /\ FsIdle
    /\ ClIdle /\ HsIdle /\ TIdle /\ AuxIdle

\* one caller, every operation
NextFs ==
    \/ \E relative \in DirRels : StartMkdir(1, relative)
    \/ StartCreateTopic(1, PathA)
    \/ CtGet(1)
    \/ CtCreate(1)
    \/ \E relative \in DirRels : StartRmdir(1, relative)
    \/ RmDir(1)
    \/ RmChildren(1)
    \/ RmObjects(1)
    \/ \E topic \in {t \in rTopics : t.id = ChannelRootTopicId} :
          StartDeleteTopic(1, topic)
    \/ DtCall(1)
    \/ \E relative \in ListRels : StartList(1, relative)
    \/ StartListFile(1)
    \/ LsDir(1)
    \/ LsParent(1)
    \/ LsChildren(1)
    \/ \E relative \in ObjRels : StartNewObject(1, relative)
    \/ NoDir(1)
    \/ NoChildren(1)
    \/ \E topic \in rTopics : Upload(topic)
    \/ TopicsExpire

SpecFs == InitFs /\ [][NextFs]_vars

\* one caller, the operations that create and delete topics
NextFsDirs ==
    \/ \E relative \in DirRels : StartMkdir(1, relative)
    \/ CtGet(1)
    \/ CtCreate(1)
    \/ \E relative \in DirRels : StartRmdir(1, relative)
    \/ RmDir(1)
    \/ RmChildren(1)
    \/ RmObjects(1)
    \/ \E topic \in {t \in rTopics : t.id = ChannelRootTopicId} :
          StartDeleteTopic(1, topic)
    \/ DtCall(1)
    \/ \E topic \in rTopics : Upload(topic)
    \/ TopicsExpire

SpecFsDirs == InitFs /\ [][NextFsDirs]_vars

\* two callers, CreateTopic only
NextFsCreate ==
    \/ \E c \in Callers : StartCreateTopic(c, PathA)
    \/ \E c \in Callers : CtGet(c)
    \/ \E c \in Callers : CtCreate(c)
    \/ TopicsExpire

SpecFsCreate == InitFs /\ [][NextFsCreate]_vars

\* one caller, Mkdir and List, no listing cache
NextFsList ==
    \/ \E relative \in DirRels : StartMkdir(1, relative)
    \/ CtGet(1)
    \/ CtCreate(1)
    \/ \E relative \in ListRels : StartList(1, relative)
    \/ StartListFile(1)
    \/ LsDir(1)
    \/ LsParent(1)
    \/ LsChildren(1)
    \/ \E topic \in rTopics : Upload(topic)

\* one caller, Mkdir and List with the listing cache
NextFsRyw ==
    \/ \E relative \in DirRels : StartMkdir(1, relative)
    \/ CtGet(1)
    \/ CtCreate(1)
    \/ \E relative \in ListRels : StartList(1, relative)
    \/ LsDir(1)
    \/ LsParent(1)
    \/ LsChildren(1)
    \/ TopicsExpire

SpecFsRyw == InitFs /\ [][NextFsRyw]_vars

\* the listing cache switched off (MaxCacheTime 0): every List reads the remote
InitFsList == InitFs /\ maxCacheTime = 0

SpecFsList == InitFsList /\ [][NextFsList]_vars

\* two callers and no listing cache: one makes and removes the directory "a",
\* the other makes its child "a/b"
NextFsRace ==
    \/ StartMkdir(1, <<"a">>)
    \/ StartRmdir(1, <<"a">>)
    \/ RmDir(1)
    \/ RmChildren(1)
    \/ RmObjects(1)
    \/ DtCall(1)
    \/ StartMkdir(2, <<"a", "/", "b">>)
    \/ \E c \in Callers : CtGet(c)
    \/ \E c \in Callers : CtCreate(c)

SpecFsRace == InitFsList /\ [][NextFsRace]_vars

\* C1: when CreateTopic(d) is called twice in a row by the one caller, d
\* being absent before the first call, both calls returning no error and the
\* first one returning a topic, the first call reports created = true, the
\* second created = false, and both return the same topic id.
C1_CreateTwice ==
    (/\ fsRes[1].op = "CreateTopic" /\ fsPrev[1].op = "CreateTopic"
     /\ fsPrev[1].query = fsRes[1].query /\ fsPrev[1].absent
     /\ fsPrev[1].err = "nil" /\ fsRes[1].err = "nil"
     /\ fsPrev[1].id # 0)
    => (/\ fsPrev[1].created /\ ~fsRes[1].created
        /\ fsRes[1].id = fsPrev[1].id)

\* C2: when two callers have each completed a CreateTopic of the same title
\* without error, both invoked while no topic had that title, exactly one of
\* them issued a remote create and the channel holds exactly one topic with
\* that title.
C2_OneCreate ==
    (/\ fsRes[1].op = "CreateTopic" /\ fsRes[2].op = "CreateTopic"
     /\ fsRes[1].query = fsRes[2].query
     /\ fsRes[1].absent /\ fsRes[2].absent
     /\ fsRes[1].err = "nil" /\ fsRes[2].err = "nil")
    => (/\ fsRes[1].issued # fsRes[2].issued
        /\ Cardinality({t \in rTopics : t.title = fsRes[1].query}) = 1)

\* C3: an Rmdir that resolved an existing directory other than the root and
\* met no remote error returns directory-not-empty exactly when the remote
\* holds a child topic or a user message of that directory, and otherwise has
\* issued the delete.
C3_NotEmptyIff ==
    (/\ fsRes[1].op = "Rmdir" /\ fsRes[1].found /\ ~fsRes[1].remoteErr
     /\ fsRes[1].id # ChannelRootTopicId)
    => (/\ (fsRes[1].err = "ErrorDirectoryNotEmpty") <=> fsRes[1].nonEmpty
        /\ fsRes[1].err # "ErrorDirectoryNotEmpty" => fsRes[1].issued)

\* C4: an Rmdir that returned success did not delete a topic while the remote
\* still held a topic whose parent is the deleted topic's title.
C4_NoOrphan ==
    (fsRes[1].op = "Rmdir" /\ fsRes[1].err = "nil") => ~fsRes[1].orphan

\* C5: the topic with the root id is always present in the remote channel,
\* and a DeleteTopic on it returns the unsupported-operation error without
\* issuing a remote delete.
C5_RootGuard ==
    /\ \E t \in rTopics : t.id = ChannelRootTopicId
    /\ (fsRes[1].op = "DeleteTopic" /\ fsRes[1].id = ChannelRootTopicId)
          => (fsRes[1].err = "ErrUnsupportedOperation" /\ ~fsRes[1].issued)

C5_Witness ==
    /\ fsRes[1].op = "DeleteTopic" /\ fsRes[1].id = ChannelRootTopicId
    /\ fsRes[1].err = "ErrUnsupportedOperation"
    /\ \E ch \in rTopics : PathDir(ch.title) = RootLit
    /\ \E t \in rTopics : t.id = ChannelRootTopicId /\ t.title = RootLit

\* C20: while a cache holds an entry (a load succeeded and the entry has not
\* expired), a GetTopics, respectively a GetChannel, goes straight to its
\* return with the cached value, without the pacer and without a remote
\* invocation, and returns that value with no error; a GetChannel nested in
\* another operation does the same; a value is stored into the channel cache
\* only by GetChannel and into the topic-listing cache only by GetTopics, and
\* a store or a hit in one cache leaves the other cache as it was.
C20_CachedWithinTtl ==
    [][ /\ \A op \in {"GetChannel", "GetTopics"} :
              LET entry == IF op = "GetChannel" THEN chanCache ELSE topicsCache
              IN  (/\ gwStack = <<>> /\ gwStack' # <<>>
                   /\ gwStack'[1].op = op /\ entry # "none")
                  => /\ gwStack' = <<[Frame(op, "ret") EXCEPT !.payload = entry]>>
                     /\ chanCache' = chanCache /\ topicsCache' = topicsCache
        /\ (Len(gwStack) = 1 /\ gwStack' = <<>> /\ gwStack[1].pc = "ret"
             /\ gwStack[1].last = "none" /\ gwStack[1].tries = 0
             /\ gwStack[1].payload \in Payloads)
            => (gwRet'.err = "nil" /\ gwRet'.payload = gwStack[1].payload)
        /\ (gwStack # <<>> /\ gwStack[Len(gwStack)].pc = "channel"
             /\ chanCache # "none")
            => Len(gwStack') = Len(gwStack)
        /\ (chanCache' \notin {chanCache, "none"})
            => (/\ gwStack # <<>> /\ gwStack[Len(gwStack)].op = "GetChannel"
                /\ topicsCache' = topicsCache)
        /\ (topicsCache' \notin {topicsCache, "none"})
            => (/\ gwStack # <<>> /\ gwStack[Len(gwStack)].op = "GetTopics"
                /\ chanCache' = chanCache)
      ]_vars

\* a GetTopics answered from the topic-listing cache while the channel cache
\* holds another value
C20_Witness ==
    /\ gwRet.op = "GetTopics" /\ gwRet.last = "none" /\ gwRet.err = "nil"
    /\ gwRet.payload \in Payloads /\ topicsCache = gwRet.payload
    /\ chanCache \in Payloads /\ chanCache # topicsCache
    /\ maxCacheTime > 0

\* C21: a load of GetChannel or GetTopics that ended with an error stores
\* nothing (both caches stay as they were, and the cache of the operation is
\* empty), and the next call of the same operation runs the loader again.
C21_ErrorNotCached ==
    [][ /\ (/\ gwStack # <<>> /\ gwStack[Len(gwStack)].pc = "end"
             /\ gwStack[Len(gwStack)].op \in {"GetChannel", "GetTopics"}
             /\ gwStack[Len(gwStack)].err # "nil"
             /\ gwStack'[Len(gwStack)].pc = "ret")
            => /\ chanCache' = chanCache /\ topicsCache' = topicsCache
               /\ (IF gwStack[Len(gwStack)].op = "GetChannel"
                   THEN chanCache' ELSE topicsCache') = "none"
        /\ (/\ gwStack = <<>> /\ gwStack' # <<>>
             /\ gwRet.op \in {"GetChannel", "GetTopics"} /\ gwRet.err # "nil"
             /\ gwStack'[1].op = gwRet.op)
            => gwStack'[1].pc = "begin"
      ]_vars

\* a GetTopics whose remote listing failed, with caching on: the listing is
\* not cached, while the channel its nested GetChannel loaded is
C21_Witness ==
    /\ gwRet.op = "GetTopics" /\ gwRet.err = "ErrRPC" /\ gwRet.last = "rpc"
    /\ topicsCache = "none" /\ chanCache \in Payloads /\ maxCacheTime > 0

\* C23: a GetChannel whose remote reply held no channel with the configured
\* id returns the invalid-channel error, and no GetChannel, nested ones
\* included, returns a nil channel with a nil error.
C23_NoMatchIsInvalidChannel ==
    /\ (gwRet.op = "GetChannel" /\ gwRet.last = "nomatch")
          => gwRet.err = "ErrInvalidChannel"
    /\ \A i \in 1..Len(gwStack) :
          (gwStack[i].op = "GetChannel" /\ gwStack[i].pc = "ret")
             => ~(gwStack[i].err = "nil" /\ gwStack[i].payload = "nil")

\* C25: a remote invocation is only issued in an attempt whose liveness check
\* (MTProto()) passed; an attempt whose reconnect failed issues no invocation
\* and is not retried, and the operation returns the reconnect error.
C25_LivenessCheckFirst ==
    /\ \A i \in 1..Len(gwStack) :
          /\ gwStack[i].pc = "invoke" => gwStack[i].checked
          /\ gwStack[i].last = "noconnect"
                => (gwStack[i].pc \in {"end", "ret"} /\ ~gwStack[i].retry
                    /\ ~gwStack[i].checked)
    /\ gwRet.last = "noconnect" => gwRet.err = "ErrReconnect"

\* C30: a Rmdir of the root topic that met no remote error and did not find
\* the directory non-empty is refused with the unsupported-operation error.
C30_RootRefusalIsTyped ==
    (/\ fsRes[1].op = "Rmdir" /\ fsRes[1].id = ChannelRootTopicId
     /\ ~fsRes[1].remoteErr /\ fsRes[1].err # "ErrorDirectoryNotEmpty")
    => fsRes[1].err = "ErrUnsupportedOperation"

\* C13: a NewObject whose query is the title of a topic of the channel, and
\* that met no remote error, returns the is-a-directory error.
C13_TopicIsDirectory ==
    (fsRes[1].op = "NewObject" /\ ~fsRes[1].absent /\ ~fsRes[1].remoteErr)
        => fsRes[1].err = "ErrorIsDir"

\* C14: when the channel holds exactly one topic titled /root/a, exactly one
\* titled /root/a/b and no user message under /root/a, a successful List of
\* /root/a returns one directory, the one of /root/a/b under its name below
\* the filesystem's root, whose item count is the number of user messages
\* under /root/a/b, and no file.
C14_ListOneChild ==
    LET r == fsRes[1]
        as == {t \in r.remote.topics : t.title = PathA}
        bs == {t \in r.remote.topics : t.title = PathAB}
    IN  (/\ r.op = "List" /\ r.query = PathA /\ r.err = "nil"
         /\ Cardinality(as) = 1 /\ Cardinality(bs) = 1
         /\ \A t \in as : t.id \notin r.remote.user)
        => /\ r.dirs = { [id |-> t.id, name |-> <<"a", "/", "b">>,
                          items |-> IF t.id \in r.remote.user THEN 1 ELSE 0]
                         : t \in bs }
           /\ r.files = 0

\* C26: a List in which the enumeration of a child failed, while the listing
\* of the children and the enumeration of the listed directory itself did
\* not, returns no error, one directory entry for every child (the failed
\* ones included) and the files of the listed directory.
C26_ChildErrorNotFatal ==
    LET r == fsRes[1]
    IN  (r.op = "List" /\ r.failed # {} /\ ~r.remoteErr)
        => /\ r.err = "nil"
           /\ {d.id : d \in r.dirs} = r.listed
           /\ r.failed \subseteq r.listed
           /\ r.entries = Cardinality(r.listed) + r.files

C26_Witness ==
    /\ fsRes[1].op = "List" /\ fsRes[1].query = PathA /\ fsRes[1].err = "nil"
    /\ Cardinality(fsRes[1].failed) = 1 /\ Cardinality(fsRes[1].dirs) = 1
    /\ fsRes[1].files = 1 /\ fsRes[1].entries = 2

\* C31: a directory entry List returns for a child whose enumeration ended
\* in an error carries the item count -1, not the count reached before the
\* error.
C31_UnknownCountIsMinusOne ==
    LET r == fsRes[1]
    IN  r.op = "List" =>
           \A d \in r.dirs : d.id \in r.failed => d.items = -1

\* C27: a List whose query is the title of no topic, with no remote error:
\* when the request is the root request it returns exactly one file entry
\* whose body is the query if the parent directory holds such a message and
\* directory-not-found otherwise; when it is not the root request it returns
\* an error and no message search is made.
C27_NotATopic ==
    LET r == fsRes[1]
        isTopic == \E t \in r.remote.topics : t.title = r.query
        exists == \E t \in r.remote.topics :
                     /\ t.title = PathDir(r.query) /\ t.id \in r.remote.user
                     /\ FileOf(t.title) = r.query
    IN  (r.op = "List" /\ r.remote.topics # {} /\ ~isTopic /\ ~r.remoteErr)
        => IF r.relative = <<>>
           THEN IF exists
                THEN /\ r.err = "nil" /\ r.entries = 1 /\ r.files = 1
                     /\ r.dirs = {} /\ r.body = r.query
                ELSE r.err = "ErrorDirNotFound"
           ELSE r.err # "nil" /\ ~r.searched

\* C18: a create that the remote answered without an error and without a
\* creation receipt makes CreateTopic return the operation-without-updates
\* error and makes Mkdir return an error.
C18_NoReceiptIsError ==
    \A c \in Callers :
        (/\ fsRes[c].op \in {"CreateTopic", "Mkdir"}
         /\ fsRes[c].issued /\ ~fsRes[c].remoteErr /\ ~fsRes[c].created)
        => /\ fsRes[c].err # "nil"
           /\ fsRes[c].op = "CreateTopic"
                 => fsRes[c].err = "ErrOperationWithoutUpdates"

\* C19: a Mkdir of a path whose topic exists, and that met no remote error,
\* returns no error and issues no remote create.
C19_MkdirExisting ==
    (fsRes[1].op = "Mkdir" /\ ~fsRes[1].absent /\ ~fsRes[1].remoteErr)
        => (fsRes[1].err = "nil" /\ ~fsRes[1].issued)

C36_ReadYourWrites ==
    LET r == fsRes[1]
        mk == fsPrev[1]
    IN  (/\ r.op = "List" /\ mk.op = "Mkdir" /\ mk.err = "nil"
         /\ r.query = PathDir(mk.query) /\ r.err = "nil")
        => \E d \in r.dirs : d.name = mk.relative

\* C37: with no listing cached, when an Rmdir(d) of one caller ran together
\* with a Mkdir(d/c) of another, the Rmdir did not delete d while the remote
\* held d/c: the remote never ends with the topic d/c present and the topic d
\* deleted under it.
C37_RmdirAtomicWithChildCreate ==
    LET rm == fsRes[1]
        mk == fsRes[2]
    IN  (/\ rm.op = "Rmdir" /\ rm.err = "nil"
         /\ mk.op = "Mkdir" /\ PathDir(mk.query) = rm.query)
        => ~(/\ rm.orphan
             /\ \E t \in rTopics : t.title = mk.query
             /\ ~\E t \in rTopics : t.title = rm.query)

-----------------------------------------------------------------------------
(* Path canonicalization: filesystem.Clean applied to a path and to its result *)

\* the characters of the paths: the separator, the dot and a name character
PathChars == {"/", ".", "a"}

\* every path of at most MaxPathLen characters, the empty path included
PathInputs == UNION { [1..n -> PathChars] : n \in 0..MaxPathLen }

ClInput ==
    /\ clPc = "idle"
    /\ \E p \in PathInputs : clInput' = p
    /\ clPc' = "input"
    /\ UNCHANGED <<clOnce, clTwice, hsVars, tVars, itVars, cfgVars, gwVars, fsVars, auxVars>>

CleanOnce ==
    /\ clPc = "input"
    /\ clOnce' = Clean(clInput)
    /\ clPc' = "once"
    /\ UNCHANGED <<clInput, clTwice, hsVars, tVars, itVars, cfgVars, gwVars, fsVars, auxVars>>

CleanTwice ==
    /\ clPc = "once"
    /\ clTwice' = Clean(clOnce)
    /\ clPc' = "twice"
    /\ UNCHANGED <<clInput, clOnce, hsVars, tVars, itVars, cfgVars, gwVars, fsVars, auxVars>>

InitClean ==
    /\ ClIdle /\ HsIdle /\ TIdle /\ AuxIdle
    /\ CfgDefault /\ GwIdle /\ ItIdle /\ itHasMessages = FALSE /\ FsIdle

NextClean == ClInput \/ CleanOnce \/ CleanTwice

SpecClean == InitClean /\ [][NextClean]_vars

\* C15: canonicalizing the canonical form of a path gives it back:
\* Clean(Clean(p)) = Clean(p) for every path p, the empty path included.
C15_CleanIdempotent == clPc = "twice" => clTwice = clOnce

\* a path with a doubled separator and a parent reference, which Clean rewrites
C15_Witness ==
    /\ clPc = "twice" /\ clInput = <<"a", "/", "/", ".">>
    /\ clOnce = <<"/", "a">> /\ clTwice = clOnce

\* the empty path is canonicalized to the root, and the root to itself
C15_WitnessEmpty ==
    clPc = "twice" /\ clInput = <<>> /\ clOnce = <<"/">> /\ clTwice = clOnce

-----------------------------------------------------------------------------
(* The multipart checksum: types.TelegramMultipartHash *)

\* telegram.FileHash
FileHash(offset, hash) == [offset |-> offset, limit |-> ChunkSize, hash |-> hash]

\* sort.SliceStable(hashes, less by Offset): an entry goes behind every entry
\* whose offset is not larger, so entries of one offset keep their order
RECURSIVE InsertByOffset(_, _)
InsertByOffset(sorted, e) ==
    IF sorted = <<>> THEN <<e>>
    ELSE IF e.offset < Head(sorted).offset THEN <<e>> \o sorted
         ELSE <<Head(sorted)>> \o InsertByOffset(Tail(sorted), e)

RECURSIVE SliceStable(_)
SliceStable(hashes) ==
    IF hashes = <<>> THEN <<>>
    ELSE InsertByOffset(SliceStable(SubSeq(hashes, 1, Len(hashes) - 1)),
                        hashes[Len(hashes)])

\* the loop that drops the duplicate offsets of the sorted list: an entry is
\* kept when it is the first or its offset differs from the one before it
RECURSIVE UniqueFrom(_, _)
UniqueFrom(hashes, i) ==
    IF i > Len(hashes) THEN <<>>
    ELSE (IF i = 1 \/ hashes[i].offset # hashes[i - 1].offset
          THEN <<hashes[i]>> ELSE <<>>) \o UniqueFrom(hashes, i + 1)

Unique(hashes) == UniqueFrom(hashes, 1)

\* json.Marshal of the list: one object per entry, with its three fields
Marshal(unique) ==
    [i \in 1..Len(unique) |->
        [Offset |-> unique[i].offset, Limit |-> unique[i].limit,
         Hash |-> unique[i].hash]]

\* the digests, taken as free of collisions
Sha512(data) == [sha512 |-> data]

Sha256(chunk) == [sha256 |-> chunk]

\* TelegramMultipartHash.FromFileHash
FromFileHash(hashes, server) == Sha512(Marshal(Unique(SliceStable(hashes))))

\* what FromFileHash leaves in the caller's slice: it sorts in place and
\* writes the kept entries over the front of the same array
InPlace(hashes) ==
    LET sorted == SliceStable(hashes)
        unique == Unique(sorted)
    IN  unique \o SubSeq(sorted, Len(unique) + 1, Len(sorted))

\* the chunk hashes of the data, as one run of Sum's loop appends them
RECURSIVE Chunks(_, _)
Chunks(data, offset) ==
    IF offset >= Len(data) THEN <<>>
    ELSE LET n == IF Len(data) - offset < ChunkSize THEN Len(data) - offset
                  ELSE ChunkSize
             chunk == SubSeq(data, offset + 1, offset + n)
         IN  <<FileHash(offset, Sha256(chunk))>> \o Chunks(data, offset + ChunkSize)

\* the lists given to FromFileHash directly
HashValues == {"h1", "h2"}

HashEntries == { FileHash(offset, hash) : offset \in 0..MaxHashOffset, hash \in HashValues }

HashLists == UNION { [1..n -> HashEntries] : n \in 0..MaxHashes }

\* b holds the entries of a in another order
IsPermutation(a, b) ==
    /\ Len(a) = Len(b)
    /\ \E f \in [1..Len(a) -> 1..Len(a)] :
          /\ \A i, j \in 1..Len(a) : f[i] = f[j] => i = j
          /\ \A i \in 1..Len(a) : b[i] = a[f[i]]

\* the entries of b at the positions of keep, in the order of b
RECURSIVE Pick(_, _, _)
Pick(b, keep, i) ==
    IF i > Len(b) THEN <<>>
    ELSE (IF i \in keep THEN <<b[i]>> ELSE <<>>) \o Pick(b, keep, i + 1)

\* b is a with extra entries put in anywhere, each of an offset that a holds
IsDupExtension(a, b) ==
    /\ Len(b) > Len(a)
    /\ \E keep \in SUBSET (1..Len(b)) :
          /\ Pick(b, keep, 1) = a
          /\ \A j \in (1..Len(b)) \ keep :
                \E i \in 1..Len(a) : a[i].offset = b[j].offset

\* two lists are given: a list and a reordering of it, or a list and the
\* same list with extra entries of offsets it holds
HsInput ==
    /\ hsPc = "idle" /\ TIdle
    /\ \E a \in HashLists, b \in HashLists :
          /\ IsPermutation(a, b) \/ IsDupExtension(a, b)
          /\ hsInput' = a /\ hsOther' = b
    /\ hsPc' = "input"
    /\ UNCHANGED <<hsDigest, hsOtherDigest, clVars, tVars, itVars, cfgVars, gwVars, fsVars, auxVars>>

\* NewTelegramMultipartHash on each of the two lists
HsDigest ==
    /\ hsPc = "input"
    /\ \E server \in BOOLEAN :
          /\ hsDigest' = FromFileHash(hsInput, server)
          /\ hsOtherDigest' = FromFileHash(hsOther, server)
    /\ hsPc' = "done"
    /\ UNCHANGED <<hsInput, hsOther, clVars, tVars, itVars, cfgVars, gwVars, fsVars, auxVars>>

\* TelegramMultipartHash.Write, a byte at a time
Write(byte) ==
    /\ hsPc = "idle" /\ Len(tData) < MaxData
    /\ tData' = Append(tData, byte)
    /\ UNCHANGED <<tSha256, tSums, tRet, clVars, hsVars, itVars, cfgVars, gwVars, fsVars, auxVars>>

\* TelegramMultipartHash.Sum: the chunk hashes of the data are appended to
\* t.sha256 and the whole of t.sha256 goes to FromFileHash
Sum ==
    /\ hsPc = "idle" /\ tSums < MaxSums
    /\ LET fresh == Chunks(tData, 0)
           given == tSha256 \o fresh
       IN  /\ tSha256' = InPlace(given)
           /\ tRet' = [given |-> given, fresh |-> fresh,
                       digest |-> FromFileHash(given, FALSE)]
    /\ tSums' = tSums + 1
    /\ UNCHANGED <<tData, clVars, hsVars, itVars, cfgVars, gwVars, fsVars, auxVars>>

\* TelegramMultipartHash.Reset
Reset ==
    /\ hsPc = "idle" /\ (tData # <<>> \/ tSha256 # <<>>)
    /\ tData' = <<>> /\ tSha256' = <<>>
    /\ UNCHANGED <<tSums, tRet, clVars, hsVars, itVars, cfgVars, gwVars, fsVars, auxVars>>

InitHash ==
    /\ ClIdle /\ HsIdle /\ TIdle /\ AuxIdle
    /\ CfgDefault /\ GwIdle /\ ItIdle /\ itHasMessages = FALSE /\ FsIdle

NextHash ==
    \/ HsInput
    \/ HsDigest
    \/ \E byte \in {"x", "y"} : Write(byte)
    \/ Sum
    \/ Reset

SpecHash == InitHash /\ [][NextHash]_vars

\* C16: two lists that hold the same entries in different orders have the
\* same digest, also when several entries share an offset.
C16_OrderIndependent ==
    (hsPc = "done" /\ IsPermutation(hsInput, hsOther))
        => hsDigest = hsOtherDigest

\* C17: a list and the same list with extra entries of offsets it already
\* holds have the same digest, wherever the extra entries stand: for two
\* lists given to FromFileHash, and for the list Sum passes (the chunk hashes
\* of the data behind what earlier calls of Sum left in t.sha256).
C17_DuplicatesIgnored ==
    /\ (hsPc = "done" /\ IsDupExtension(hsInput, hsOther))
          => hsDigest = hsOtherDigest
    /\ (tSums > 0 /\ IsDupExtension(tRet.fresh, tRet.given))
          => tRet.digest = FromFileHash(tRet.fresh, FALSE)

-----------------------------------------------------------------------------
(* Filesystem.DirectoriesFrom on every listing *)

PathAC == PathA \o <<"/", "c">>                        \* "/root/a/c"
PathAx == RootLit \o <<"/", "a", "b">>                 \* "/root/ab"
PathB == RootLit \o <<"/", "b">>                       \* "/root/b"
PathABC == PathAB \o <<"/", "c">>                      \* "/root/a/b/c"

\* the topics a listing is made of: the root topic, children, grandchildren
\* and a sibling whose title only has a child's title as a string prefix
DfPool ==
    {Topic(1, RootLit), Topic(2, PathA), Topic(3, PathAx), Topic(4, PathAB),
     Topic(5, PathABC), Topic(6, PathB), Topic(7, PathAC), Topic(8, PathA)}

DfListings == {l \in SUBSET DfPool : Cardinality(l) <= MaxListed}

\* a listing comes back from GetTopics and a topic is passed
DfInput ==
    /\ dfPc = "idle"
    /\ dfPc' = "call"
    /\ dfListing' \in DfListings
    /\ dfTopic' \in DfPool
    /\ dfChildren' = {} /\ dfErr' = "nil"
    /\ UNCHANGED <<cnVars, lkVars, nmVars, pureVars, itVars, cfgVars, gwVars, fsVars>>

DirectoriesFrom ==
    /\ dfPc = "call"
    /\ dfPc' = "done"
    /\ \/ dfErr' = "ErrRemote" /\ dfChildren' = {}
       \/ dfErr' = "nil" /\ dfChildren' = Children(dfListing, dfTopic)
    /\ UNCHANGED <<dfListing, dfTopic, cnVars, lkVars, nmVars, pureVars, itVars, cfgVars, gwVars, fsVars>>

InitDirs ==
    /\ ClIdle /\ HsIdle /\ TIdle /\ AuxIdle
    /\ CfgDefault /\ GwIdle /\ ItIdle /\ itHasMessages = FALSE /\ FsIdle

NextDirs == DfInput \/ DirectoriesFrom

SpecDirs == InitDirs /\ [][NextDirs]_vars

\* the title is the parent's title, a slash and one non-empty name that
\* holds no slash
IsDirectChild(title, parent) ==
    /\ Len(title) > Len(parent) + 1
    /\ SubSeq(title, 1, Len(parent)) = parent
    /\ title[Len(parent) + 1] = "/"
    /\ \A i \in Len(parent) + 2..Len(title) : title[i] # "/"

\* C28: DirectoriesFrom(topic) returns exactly the topics of the listing
\* whose title is the title of topic followed by one more path element: not
\* topic itself (nor a topic of the same title), no topic two or more levels
\* below, no topic whose title merely starts with the characters of the title.
C28_DirectChildrenOnly ==
    (dfPc = "done" /\ dfErr = "nil") =>
        /\ dfChildren = {t \in dfListing : IsDirectChild(t.title, dfTopic.title)}
        /\ \A t \in dfChildren : t.title # dfTopic.title /\ t.id # dfTopic.id

C28_Witness ==
    /\ dfPc = "done" /\ dfErr = "nil" /\ dfTopic = Topic(2, PathA)
    /\ dfListing = {Topic(2, PathA), Topic(3, PathAx), Topic(4, PathAB), Topic(5, PathABC)}
    /\ dfChildren = {Topic(4, PathAB)}

-----------------------------------------------------------------------------
(* GetTopics: the entries of the forum listing and the slice handed to
   Directory, DirectoriesFrom and CreateTopic *)

\* the longest forum listing
MaxForum == 2

\* an entry of the remote's forum listing: a regular topic, or an entry of
\* another kind (the placeholder of a deleted topic), which carries no title
GtRegular(topic) == [regular |-> TRUE, topic |-> topic]

GtPlaceholder == [regular |-> FALSE, topic |-> NoTopic]

GtEntries ==
    {GtRegular(Topic(2, PathA)), GtRegular(Topic(4, PathAB)),
     GtRegular(Topic(6, PathB)), GtPlaceholder}

GtForums == UNION { [1..n -> GtEntries] : n \in 0..MaxForum }

\* GetTopics' loader: a slice as long as the listing, whose element i is set
\* only when entry i is a regular topic; the other elements stay nil
GtDecode(forum) ==
    [i \in 1..Len(forum) |-> IF forum[i].regular THEN forum[i].topic ELSE NoTopic]

\* the first index of the slice whose topic has the title, or one past its end
GtFirstMatch(topics, title) ==
    LET hits == {i \in 1..Len(topics) :
                    topics[i] # NoTopic /\ topics[i].title = title}
    IN  IF hits = {} THEN Len(topics) + 1
        ELSE CHOOSE i \in hits : \A j \in hits : i <= j

\* a loop that reads the Title of the first n elements reads a nil topic
GtReadsNil(topics, n) == \E i \in 1..n : i <= Len(topics) /\ topics[i] = NoTopic

\* GetTopics returns the decoded listing to a caller that holds a title
GtInput ==
    /\ dfPc = "idle"
    /\ dfPc' = "call"
    /\ \E forum \in GtForums : dfListing' = GtDecode(forum)
    /\ dfTopic' \in {Topic(2, PathA), Topic(6, PathB)}
    /\ dfChildren' = {} /\ dfErr' = "nil"
    /\ UNCHANGED <<cnVars, lkVars, nmVars, pureVars, itVars, cfgVars, gwVars, fsVars>>

\* Directory(query): the loop reads the Title of every element
GtDirectory ==
    LET hits == {dfListing[i] : i \in {j \in 1..Len(dfListing) :
                     dfListing[j].title = dfTopic.title}}
    IN
    /\ dfPc = "call"
    /\ dfPc' = "done"
    /\ dfErr' = IF GtReadsNil(dfListing, Len(dfListing)) THEN "panic"
                ELSE IF hits = {} THEN "ErrorDirNotFound" ELSE "nil"
    /\ dfChildren' = IF GtReadsNil(dfListing, Len(dfListing)) THEN {} ELSE hits
    /\ UNCHANGED <<dfListing, dfTopic, cnVars, lkVars, nmVars, pureVars, itVars, cfgVars, gwVars, fsVars>>

\* DirectoriesFrom(topic): the loop reads the Title of every element
GtDirectoriesFrom ==
    /\ dfPc = "call"
    /\ dfPc' = "done"
    /\ IF GtReadsNil(dfListing, Len(dfListing))
       THEN dfErr' = "panic" /\ dfChildren' = {}
       ELSE /\ dfErr' = "nil"
            /\ dfChildren' =
                  Children({dfListing[i] : i \in 1..Len(dfListing)}, dfTopic)
    /\ UNCHANGED <<dfListing, dfTopic, cnVars, lkVars, nmVars, pureVars, itVars, cfgVars, gwVars, fsVars>>

\* CreateTopic(title): the loop reads Titles up to the first topic of the title
GtCreateTopic ==
    LET first == GtFirstMatch(dfListing, dfTopic.title)
    IN
    /\ dfPc = "call"
    /\ dfPc' = "done"
    /\ IF GtReadsNil(dfListing, first)
       THEN dfErr' = "panic" /\ dfChildren' = {}
       ELSE /\ dfErr' = "nil"
            /\ dfChildren' = IF first <= Len(dfListing) THEN {dfListing[first]}
                             ELSE {}
    /\ UNCHANGED <<dfListing, dfTopic, cnVars, lkVars, nmVars, pureVars, itVars, cfgVars, gwVars, fsVars>>

\* the caller goes on to its next call
GtReturn ==
    /\ dfPc = "done" /\ dfErr # "panic"
    /\ dfPc' = "idle"
    /\ dfListing' = {} /\ dfTopic' = NoTopic /\ dfChildren' = {} /\ dfErr' = "nil"
    /\ UNCHANGED <<cnVars, lkVars, nmVars, pureVars, itVars, cfgVars, gwVars, fsVars>>

NextTopics ==
    GtInput \/ GtDirectory \/ GtDirectoriesFrom \/ GtCreateTopic \/ GtReturn

SpecTopics == InitDirs /\ [][NextTopics]_vars

\* C38: the slice GetTopics hands to its callers holds no nil topic, and
\* Directory, DirectoriesFrom and CreateTopic never read the title of a nil
\* topic (no call ends in a nil dereference).
C38_NoNilTopic ==
    /\ dfPc = "call" => \A i \in 1..Len(dfListing) : dfListing[i] # NoTopic
    /\ dfPc = "done" => dfErr # "panic"

-----------------------------------------------------------------------------
(* The two client handles: Connect, Authorize, ActiveReconnect, MTProto, Bot *)

BotOf_AlwaysBot(testServer, mtproto, fresh) == fresh

\* Connect: the session the bot handle gets
BotOf(testServer, mtproto, fresh) == IF testServer THEN mtproto ELSE fresh

CnReturn(op, err, handle, reconnected) ==
    cnRet' = [op |-> op, err |-> err, handle |-> handle, reconnected |-> reconnected]

Connect ==
    /\ cnNext + 1 <= MaxSessions
    /\ \E mOk, bOk \in BOOLEAN :
         LET m == cnNext
             b == BotOf(cnTestServer, m, cnNext + 1)
         IN  IF ~mOk
             THEN /\ CnReturn("Connect", "ErrInvalidClientCouldNotConnect", 0, FALSE)
                  /\ UNCHANGED <<cnMtproto, cnBot, cnNext, cnActive>>
             ELSE IF ~cnTestServer /\ ~bOk
             THEN /\ CnReturn("Connect", "ErrInvalidClientCouldNotConnect", 0, FALSE)
                  /\ cnNext' = cnNext + 1
                  /\ cnActive' = cnActive \cup {m}
                  /\ UNCHANGED <<cnMtproto, cnBot>>
             ELSE /\ cnMtproto' = m
                  /\ cnBot' = b
                  /\ cnNext' = IF b = m THEN cnNext + 1 ELSE cnNext + 2
                  /\ cnActive' = cnActive \cup {m, b}
                  /\ CnReturn("Connect", "nil", m, FALSE)
    /\ UNCHANGED <<cnTestServer, dfVars, lkVars, nmVars, pureVars, itVars, cfgVars, gwVars, fsVars>>

Authorize ==
    /\ cnNext <= MaxSessions
    /\ \E mOk, loginOk \in BOOLEAN :
         IF ~mOk
         THEN /\ CnReturn("Authorize", "ErrInvalidClientCouldNotConnect", 0, FALSE)
              /\ UNCHANGED <<cnMtproto, cnBot, cnNext, cnActive>>
         ELSE /\ cnNext' = cnNext + 1
              /\ cnActive' = cnActive \cup {cnNext}
              /\ IF ~loginOk
                 THEN /\ CnReturn("Authorize", "ErrLogin", 0, FALSE)
                      /\ UNCHANGED <<cnMtproto, cnBot>>
                 ELSE /\ cnMtproto' = cnNext /\ cnBot' = cnNext
                      /\ CnReturn("Authorize", "nil", cnNext, FALSE)
    /\ UNCHANGED <<cnTestServer, dfVars, lkVars, nmVars, pureVars, itVars, cfgVars, gwVars, fsVars>>

\* ActiveReconnect, called by itself or as the first step of MTProto() / Bot()
ActiveReconnect(op) ==
    /\ cnMtproto # 0 /\ cnBot # 0
    /\ \E mOk, bOk \in BOOLEAN :
         LET down == cnMtproto \notin cnActive
             up == cnActive \cup {cnMtproto}
         IN  IF down /\ ~mOk
             THEN /\ CnReturn(op, "ErrReconnect", 0, FALSE)
                  /\ UNCHANGED <<cnBot, cnActive>>
             ELSE IF cnTestServer
             THEN /\ cnBot' = cnMtproto
                  /\ cnActive' = up
                  /\ CnReturn(op, "nil",
                              IF op = "ActiveReconnect" THEN 0 ELSE cnMtproto, down)
             ELSE IF cnBot \notin up /\ ~bOk
             THEN /\ CnReturn(op, "ErrReconnect", 0, down)
                  /\ cnActive' = up
                  /\ UNCHANGED cnBot
             ELSE /\ cnActive' = up \cup {cnBot}
                  /\ UNCHANGED cnBot
                  /\ CnReturn(op, "nil",
                              CASE op = "MTProto" -> cnMtproto
                                [] op = "Bot" -> cnBot
                                [] OTHER -> 0,
                              down \/ cnBot \notin up)
    /\ UNCHANGED <<cnTestServer, cnMtproto, cnNext,
                   dfVars, lkVars, nmVars, pureVars, itVars, cfgVars, gwVars, fsVars>>

MTProto == ActiveReconnect("MTProto")

Bot == ActiveReconnect("Bot")

\* the transport of a session goes down
CnDrop ==
    /\ \E s \in cnActive : cnActive' = cnActive \ {s}
    /\ UNCHANGED <<cnTestServer, cnMtproto, cnBot, cnNext, cnRet,
                   dfVars, lkVars, nmVars, pureVars, itVars, cfgVars, gwVars, fsVars>>

Disconnect ==
    /\ cnMtproto # 0 /\ cnBot # 0
    /\ cnActive' = cnActive \ {cnMtproto, cnBot}
    /\ CnReturn("Disconnect", "nil", 0, FALSE)
    /\ UNCHANGED <<cnTestServer, cnMtproto, cnBot, cnNext,
                   dfVars, lkVars, nmVars, pureVars, itVars, cfgVars, gwVars, fsVars>>

InitConn ==
    /\ cnTestServer \in BOOLEAN /\ CnFresh
    /\ DfIdle /\ LkIdle /\ NmIdle /\ ClIdle /\ HsIdle /\ TIdle
    /\ CfgDefault /\ GwIdle /\ ItIdle /\ itHasMessages = FALSE /\ FsIdle

NextConn ==
    \/ Connect
    \/ Authorize
    \/ ActiveReconnect("ActiveReconnect")
    \/ MTProto
    \/ Bot
    \/ CnDrop
    \/ Disconnect

SpecConn == InitConn /\ [][NextConn]_vars

\* C24: with Options.TestServer set, tc.mtproto and tc.bot are the same
\* session in every state; after a successful Connect or ActiveReconnect that
\* session exists, and MTProto() and Bot() return it.
C24_OneSessionInTestMode ==
    cnTestServer =>
        /\ cnMtproto = cnBot
        /\ (cnRet.op \in {"Connect", "ActiveReconnect", "MTProto", "Bot"}
               /\ cnRet.err = "nil") => cnMtproto # 0
        /\ (cnRet.op \in {"MTProto", "Bot"} /\ cnRet.err = "nil")
              => (cnRet.handle = cnMtproto /\ cnRet.handle = cnBot)

C24_Witness ==
    /\ cnTestServer /\ cnRet.op = "Bot" /\ cnRet.err = "nil" /\ cnRet.reconnected
    /\ cnRet.handle = 2 /\ cnMtproto = 2 /\ cnBot = 2 /\ 2 \in cnActive

-----------------------------------------------------------------------------
(* Callers of the gateway at the same time: the two mutexes and the pacer *)

LkOps == {"GetTopics", "CreateTopic", "DeleteTopic", "SearchMessagesTopic"}

DirOps == {"CreateTopic", "DeleteTopic"}

LkRest == <<dfVars, cnVars, nmVars, pureVars, itVars, cfgVars, gwVars, fsVars>>

LkSet(c, call) == lkCall' = [lkCall EXCEPT ![c] = call]

\* a caller enters an operation of the gateway
LkStart(c, op) ==
    /\ lkCall[c].pc = "idle"
    /\ LkSet(c, IF op = "GetTopics"
                THEN \* no mutex: a hit of tc.topics, or the loader
                     [NoLkCall EXCEPT !.op = op, !.call = "GetTopics",
                                      !.pc = IF lkTopics THEN "unlock" ELSE "begin"]
                ELSE [NoLkCall EXCEPT !.op = op, !.pc = "lock"])
    /\ UNCHANGED <<lkDirectories, lkFiles, lkTokens, lkChannel, lkTopics, LkRest>>

\* tc.lockDirectories.Lock() / tc.lockFiles.Lock(): waits while it is held
LkLock(c) ==
    LET call == lkCall[c]
    IN
    /\ call.pc = "lock"
    /\ IF call.op \in DirOps
       THEN /\ lkDirectories = 0 /\ lkDirectories' = c /\ UNCHANGED lkFiles
       ELSE /\ lkFiles = 0 /\ lkFiles' = c /\ UNCHANGED lkDirectories
    /\ LkSet(c, CASE call.op = "CreateTopic" ->
                       IF lkTopics THEN [call EXCEPT !.pc = "decide"]
                       ELSE [call EXCEPT !.pc = "begin", !.call = "GetTopics"]
                  [] call.op = "DeleteTopic" -> [call EXCEPT !.pc = "guard"]
                  [] OTHER -> [call EXCEPT !.pc = "begin", !.call = "main"])
    /\ UNCHANGED <<lkTokens, lkChannel, lkTopics, LkRest>>

\* CreateTopic: the title is in the listing or the topic is to be created
LkDecide(c) ==
    /\ lkCall[c].pc = "decide"
    /\ \/ LkSet(c, [lkCall[c] EXCEPT !.pc = "unlock"])
       \/ LkSet(c, [lkCall[c] EXCEPT !.pc = "begin", !.call = "main"])
    /\ UNCHANGED <<lkDirectories, lkFiles, lkTokens, lkChannel, lkTopics, LkRest>>

\* DeleteTopic: the root topic is refused
LkGuard(c) ==
    /\ lkCall[c].pc = "guard"
    /\ \/ LkSet(c, [lkCall[c] EXCEPT !.pc = "unlock",
                                      !.err = "ErrUnsupportedOperation"])
       \/ LkSet(c, [lkCall[c] EXCEPT !.pc = "begin", !.call = "main"])
    /\ UNCHANGED <<lkDirectories, lkFiles, lkTokens, lkChannel, lkTopics, LkRest>>

\* pacer.Call takes a connection token, waiting while none is free
LkBegin(c) ==
    /\ lkCall[c].pc = "begin" /\ lkTokens > 0
    /\ lkTokens' = lkTokens - 1
    /\ LkSet(c, [lkCall[c] EXCEPT !.pc = "connect", !.held = @ + 1])
    /\ UNCHANGED <<lkDirectories, lkFiles, lkChannel, lkTopics, LkRest>>

\* tc.MTProto() inside the wrapped function
LkConnect(c) ==
    /\ lkCall[c].pc = "connect"
    /\ \/ LkSet(c, [lkCall[c] EXCEPT !.pc = "channel"])
       \/ LkSet(c, [lkCall[c] EXCEPT !.pc = "end", !.err = "ErrReconnect"])
    /\ UNCHANGED <<lkDirectories, lkFiles, lkTokens, lkChannel, lkTopics, LkRest>>

\* tc.GetChannel(ctx) inside the wrapped function: a hit, or the loader
LkChannel(c) ==
    /\ lkCall[c].pc = "channel"
    /\ LkSet(c, [lkCall[c] EXCEPT !.pc = IF lkChannel THEN "invoke" ELSE "n_begin"])
    /\ UNCHANGED <<lkDirectories, lkFiles, lkTokens, lkChannel, lkTopics, LkRest>>

\* the pacer.Call of GetChannel's loader takes a token of its own
LkNestedBegin(c) ==
    /\ lkCall[c].pc = "n_begin" /\ lkTokens > 0
    /\ lkTokens' = lkTokens - 1
    /\ LkSet(c, [lkCall[c] EXCEPT !.pc = "n_invoke", !.held = @ + 1])
    /\ UNCHANGED <<lkDirectories, lkFiles, lkChannel, lkTopics, LkRest>>

\* GetChannel's loader: MTProto() and channels.getChannels
LkNestedInvoke(c) ==
    /\ lkCall[c].pc = "n_invoke"
    /\ \E err \in {"nil", "ErrInvalidChannel"} :
          LkSet(c, [lkCall[c] EXCEPT !.pc = "n_end", !.err = err])
    /\ UNCHANGED <<lkDirectories, lkFiles, lkTokens, lkChannel, lkTopics, LkRest>>

\* the loader's pacer.Call gives its token back; the channel is cached
LkNestedEnd(c) ==
    /\ lkCall[c].pc = "n_end"
    /\ lkTokens' = lkTokens + 1
    /\ IF lkCall[c].err = "nil"
       THEN /\ lkChannel' = (lkChannel \/ maxCacheTime > 0)
            /\ LkSet(c, [lkCall[c] EXCEPT !.pc = "invoke", !.held = @ - 1])
       ELSE /\ UNCHANGED lkChannel
            /\ LkSet(c, [lkCall[c] EXCEPT !.pc = "end", !.held = @ - 1])
    /\ UNCHANGED <<lkDirectories, lkFiles, lkTopics, LkRest>>

\* the remote invocation of the operation
LkInvoke(c) ==
    /\ lkCall[c].pc = "invoke"
    /\ \E err \in {"nil", "ErrRPC"} :
          LkSet(c, [lkCall[c] EXCEPT !.pc = "end", !.err = err])
    /\ UNCHANGED <<lkDirectories, lkFiles, lkTokens, lkChannel, lkTopics, LkRest>>

\* pacer.Call gives the token back
LkEnd(c) ==
    LET call == lkCall[c]
    IN
    /\ call.pc = "end"
    /\ lkTokens' = lkTokens + 1
    /\ IF call.call = "GetTopics" /\ call.err = "nil"
       THEN /\ lkTopics' = (lkTopics \/ maxCacheTime > 0)
            /\ LkSet(c, [call EXCEPT !.held = @ - 1,
                            !.pc = IF call.op = "GetTopics" THEN "unlock"
                                   ELSE "decide"])
       ELSE /\ UNCHANGED lkTopics
            /\ LkSet(c, [call EXCEPT !.pc = "unlock", !.held = @ - 1])
    /\ UNCHANGED <<lkDirectories, lkFiles, lkChannel, LkRest>>

\* the operation returns, with the deferred Unlock() of its mutex if it has one
LkUnlock(c) ==
    /\ lkCall[c].pc = "unlock"
    /\ CASE lkCall[c].op \in DirOps -> lkDirectories' = 0 /\ UNCHANGED lkFiles
         [] lkCall[c].op = "SearchMessagesTopic" ->
                lkFiles' = 0 /\ UNCHANGED lkDirectories
         [] OTHER -> UNCHANGED <<lkDirectories, lkFiles>>
    /\ LkSet(c, [NoLkCall EXCEPT !.op = lkCall[c].op, !.err = lkCall[c].err])
    /\ UNCHANGED <<lkTokens, lkChannel, lkTopics, LkRest>>

\* the expiry deadline of the cached channel and listing passes
LkExpire ==
    /\ lkChannel \/ lkTopics
    /\ lkChannel' = FALSE /\ lkTopics' = FALSE
    /\ UNCHANGED <<lkCall, lkDirectories, lkFiles, lkTokens, LkRest>>

\* the steps of a caller that is inside an operation
LkStep(c) ==
    \/ LkLock(c)
    \/ LkDecide(c)
    \/ LkGuard(c)
    \/ LkBegin(c)
    \/ LkConnect(c)
    \/ LkChannel(c)
    \/ LkNestedBegin(c)
    \/ LkNestedInvoke(c)
    \/ LkNestedEnd(c)
    \/ LkInvoke(c)
    \/ LkEnd(c)
    \/ LkUnlock(c)

InitLocks ==
    /\ maxRetries = 0
    /\ maxConnections \in 1..MaxConn
    /\ maxCacheTime \in {0, MaxCacheTimeDefault}
    /\ lkCall = [c \in Callers |-> NoLkCall]
    /\ lkDirectories = 0 /\ lkFiles = 0 /\ lkTokens = maxConnections
    /\ lkChannel = FALSE /\ lkTopics = FALSE
    /\ DfIdle /\ CnIdle /\ NmIdle /\ ClIdle /\ HsIdle /\ TIdle
    /\ GwIdle /\ ItIdle /\ itHasMessages = FALSE /\ FsIdle

NextLocks ==
    \/ \E c \in Callers, op \in LkOps : LkStart(c, op)
    \/ \E c \in Callers : LkStep(c)
    \/ LkExpire

SpecLocks == InitLocks /\ [][NextLocks]_vars

\* every caller inside an operation takes its next step when it can; a
\* mutex or a token that is free again and again is obtained
FairSpecLocks == SpecLocks /\ \A c \in Callers : SF_vars(LkStep(c))

InDirectories(c) == lkCall[c].op \in DirOps /\ lkCall[c].pc \notin {"idle", "lock"}

InFiles(c) == lkCall[c].op = "SearchMessagesTopic" /\ lkCall[c].pc \notin {"idle", "lock"}

\* C22: at most one caller is inside CreateTopic or DeleteTopic, at most one
\* inside SearchMessagesTopic, no caller holds both mutexes, and every caller
\* that entered an operation of either domain leaves it again.
C22_TwoLockDomains ==
    /\ [](\A c, d \in Callers :
            c # d => /\ ~(InDirectories(c) /\ InDirectories(d))
                     /\ ~(InFiles(c) /\ InFiles(d)))
    /\ [](\A c \in Callers : ~(lkDirectories = c /\ lkFiles = c))
    /\ \A c \in Callers :
          (lkCall[c].pc # "idle" /\ lkCall[c].op # "GetTopics")
             ~> (lkCall[c].pc = "idle")

\* C34: a caller that waits for a connection token of the pacer, in the
\* wrapped call of its operation or in the one of the nested GetChannel,
\* gets it and completes the operation.
C34_PacerNeverBlocksForever ==
    \A c \in Callers :
        (lkCall[c].pc \in {"begin", "n_begin"}) ~> (lkCall[c].pc = "idle")

-----------------------------------------------------------------------------
(* Naming: Filesystem.Locate, NewObjectFromRelative and Object.Remote *)

\* path.Base
PathBase(p) ==
    IF p = <<>> THEN <<".">>
    ELSE LET comps == Components(p)
             named == {i \in 1..Len(comps) : comps[i] # <<>>}
         IN  IF named = {} THEN <<"/">>
             ELSE comps[CHOOSE i \in named : \A j \in named : j <= i]

Remote_TrimRoot(fsroot, absolute) == TrimPrefix(absolute, Root(fsroot))

\* Object.Remote
Remote(fsroot, absolute) ==
    IF absolute = Root(fsroot) THEN PathBase(Root(fsroot))
    ELSE TrimPrefix(absolute, TrailSlash(Root(fsroot)))

NewObjectFromRelative(fsroot, relative) ==
    LET absolute == PathJoin(Root(fsroot), relative)
    IN  [absolute |-> absolute, relative |-> Remote(fsroot, absolute)]

NmRoots == UNION { [1..n -> PathChars] : n \in 0..MaxRootLen }

NmRels == UNION { [1..n -> PathChars] : n \in 0..MaxRelLen }

\* a filesystem with a configured root is given a relative path
NmInput ==
    /\ nmPc = "idle"
    /\ nmPc' = "input"
    /\ nmRoot' \in NmRoots
    /\ nmRel' \in NmRels
    /\ UNCHANGED <<nmQuery, nmObject, dfVars, cnVars, lkVars, pureVars, itVars, cfgVars, gwVars, fsVars>>

\* Locate(relative), and Put's NewObjectFromRelative(f, relative)
NmName ==
    /\ nmPc = "input"
    /\ nmPc' = "done"
    /\ nmQuery' = Locate(nmRoot, nmRel)
    /\ nmObject' = NewObjectFromRelative(nmRoot, nmRel)
    /\ UNCHANGED <<nmRoot, nmRel, dfVars, cnVars, lkVars, pureVars, itVars, cfgVars, gwVars, fsVars>>

InitNames ==
    /\ ClIdle /\ HsIdle /\ TIdle /\ AuxIdle
    /\ CfgDefault /\ GwIdle /\ ItIdle /\ itHasMessages = FALSE /\ FsIdle

NextNames == NmInput \/ NmName

SpecNames == InitNames /\ [][NextNames]_vars

\* C32: the query Locate returns is Root() or Root() followed by a slash and
\* more, begins with /root and has no trailing slash, for every configured
\* root and every relative path.
C32_LocateIsRooted ==
    nmPc = "done" =>
        /\ (nmQuery = Root(nmRoot) \/ HasPrefix(nmQuery, TrailSlash(Root(nmRoot))))
        /\ HasPrefix(nmQuery, RootLit)
        /\ ~HasSuffix(nmQuery, <<"/">>)

\* a relative path that is clean: not empty, no leading or trailing slash,
\* no empty segment and no segment "." or ".."
IsCleanRelative(r) ==
    /\ r # <<>>
    /\ \A i \in 1..Len(Components(r)) :
          Components(r)[i] \notin {<<>>, <<".">>, <<".", ".">>}

\* C33: for a clean, non-empty relative path r the object built by
\* NewObjectFromRelative has the absolute path Root() + "/" + r and its
\* Remote() is r.
C33_PutNamingRoundTrip ==
    (nmPc = "done" /\ IsCleanRelative(nmRel)) =>
        /\ nmObject.absolute = Root(nmRoot) \o <<"/">> \o nmRel
        /\ nmObject.relative = nmRel

C33_Witness ==
    /\ nmPc = "done" /\ nmRoot = <<"a">> /\ nmRel = <<"a", "/", "a">>
    /\ nmObject.relative = <<"a", "/", "a">>
    /\ nmObject.absolute = RootLit \o <<"/", "a", "/", "a", "/", "a">>

=============================================================================
